---- MODULE Spec2Model ----
(***************************************************************************)
(* Model of the event aggregation pipeline of library_scraper:            *)
(*   - retry_with_backoff            (library_all_events.py 116-148)       *)
(*   - main(): gather, merge, de-duplication, date window, exports         *)
(*   - the request semaphores and the shared HTTP session                  *)
(*   - /api/refresh and the background scraper (library_web_gui.py)        *)
(*   - filter_events                 (library_web_gui.py 334-510)          *)
(*   - generate_ics_file and events_to_ics                                 *)
(*   - retry_with_backoff of library.py                                    *)
(*   - compute_date_window                                                 *)
(*   - the pagination loops and the title checks of the adapters           *)
(* Each part has its own specification over the shared variables; the      *)
(* variables of the other parts stay at their idle values.                 *)
(***************************************************************************)
EXTENDS Integers, Sequences, FiniteSets, TLC

VARIABLES
    rb_pc,        \* position inside retry_with_backoff
    max_retries,  \* keyword argument max_retries
    delay,        \* keyword argument delay
    attempt,      \* loop variable of `for attempt in range(max_retries)`
    calls,        \* number of times func has been awaited
    sleeps,       \* the arguments of asyncio.sleep, in order
    history,      \* kind of outcome of every await of func, in order
    last,         \* the full outcome of the latest await of func
    rb_out,       \* what retry_with_backoff returned or raised
    p_pc,          \* position of main() after the gather
    all_events,    \* all_events as merged at line 1695
    unique_events, \* unique_events after the de-duplication pass
    processed,     \* the events after the date and time processing
    csv_file,      \* the CSV file written by the run
    rededup,       \* the de-duplication pass applied to its own output
    completed,     \* the adapter tasks that finished, in completion order
    all_results,   \* the list asyncio.gather returned
    http_session,  \* the module global _http_session
    FIRECRAWL_CONCURRENCY, \* the ceiling read from the environment, line 92
    REQUESTS_CONCURRENCY,  \* the ceiling read from the environment, line 93
    sem,           \* the free permits of FIRECRAWL_SEM and REQUESTS_SEM
    s_pc,          \* where each adapter task stands with respect to its requests
    t_pc,          \* where each task handed to asyncio.gather stands
    m_pc,          \* where main() stands around the gather (line 1689-1693)
    SCRAPER_THREAD, \* library_web_gui.py line 73: the background thread, or None
    bg_pc,         \* where each run_scraper_background thread stands
    proc,          \* the scraper subprocess of each background thread
    PROGRESS_FILE, \* library_web_gui.py line 45: the progress record on disk
    conflicts,     \* number of refresh requests answered with 409
    events_data,   \* library_web_gui.py line 677: the in-memory snapshot
    request,       \* the criteria of the query being answered
    filtered_events, \* what filter_events returned for it
    f_pc,          \* whether the query has been answered
    ics_input,     \* the records handed to the calendar exports
    end_before_begin_raises, \* whether the ics package rejects an end before the begin
    events_equal_by_uid, \* whether the ics package compares events by their UID
    run_calendar,  \* what generate_ics_file made of them
    gui_calendar,  \* what events_to_ics made of them
    cli_args,      \* the command line compute_date_window parses
    environ,       \* START_DATE, DAYS_TO_FETCH and START_OFFSET_DAYS of os.environ
    today,         \* datetime.now().date()
    window,        \* what compute_date_window returned
    dw_pc,         \* whether compute_date_window has returned
    pg_adapter,    \* the adapter whose pagination loop runs
    page,          \* its loop variable (current_page, page)
    total_pages,   \* fetch_fpdcc_events: the page count the server last reported
    stop_fetching, \* fetch_glencoe_events: the flag of line 739
    found,         \* fetch_chicago_parks_events: len(all_events), up to 212
    pages_requested, \* the page numbers the adapter has asked the server for
    pg_pc,         \* whether the loop has ended
    ad_adapter,    \* the adapter that turns one item into a record
    ad_items,      \* the titles of the items of the server's answer
    emitted,       \* the records the adapter has emitted
    ad_next        \* the index of the item the adapter handles next

retryVars == <<rb_pc, max_retries, delay, attempt, calls, sleeps, history, last, rb_out>>

pipeVars == <<p_pc, all_events, unique_events, processed, csv_file, rededup>>

runVars == <<completed, all_results, http_session>>

semVars == <<FIRECRAWL_CONCURRENCY, REQUESTS_CONCURRENCY, sem, s_pc>>

sessVars == <<t_pc, m_pc>>

refreshVars == <<SCRAPER_THREAD, bg_pc, proc, PROGRESS_FILE, conflicts>>

filterVars == <<events_data, request, filtered_events, f_pc>>

icsVars == <<ics_input, end_before_begin_raises, events_equal_by_uid, run_calendar, gui_calendar>>

dwVars == <<cli_args, environ, today, window, dw_pc>>

pageVars == <<pg_adapter, page, total_pages, stop_fetching, found, pages_requested, pg_pc>>

adaptVars == <<ad_adapter, ad_items, emitted, ad_next>>

vars ==
    <<retryVars, pipeVars, runVars, semVars, sessVars, refreshVars, filterVars, icsVars, dwVars, pageVars, adaptVars>>

----------------------------------------------------------------------------
(* Bounds of the model *)

\* largest max_retries argument explored
MaxRetriesArg == 3

\* longest merged event list explored
MaxEvents == 3

\* number of leading entries of main()'s task list that are run
NumTasks == 4

\* number of leading entries of the task list that issue requests in the
\* model of the two semaphores
NumCallers == 7

\* largest value of FIRECRAWL_CONCURRENCY and REQUESTS_CONCURRENCY explored
MaxPermits == 2

\* number of refresh requests that start a background thread
MaxRefreshes == 2

\* number of refresh requests answered with 409 that are counted
MaxConflicts == 2

\* largest number of rows of the snapshot events_data
MaxRows == 2

\* longest search term explored
MaxTerm == 3

----------------------------------------------------------------------------
(* Program constants *)

MAX_RETRIES == 3
RETRY_DELAY == 1
RetryAfterCap == 60
BackoffCap == 30

----------------------------------------------------------------------------
(* Calendar dates and the date texts the adapters emit.                     *)
(* A text is the sequence of its space-separated words; a word carries its  *)
(* letters or digits and whether a comma follows it.                        *)

MonthNames ==
    <<"January", "February", "March", "April", "May", "June", "July",
      "August", "September", "October", "November", "December">>
MonthAbbrs ==
    <<"Jan", "Feb", "Mar", "Apr", "May", "Jun", "Jul", "Aug", "Sep", "Oct",
      "Nov", "Dec">>
\* weekday names, starting from the weekday of 2025-01-01
WeekdayCycle ==
    <<"Wednesday", "Thursday", "Friday", "Saturday", "Sunday", "Monday",
      "Tuesday">>
\* days before the first of each month in 2025 and 2026 (no leap year)
CumDays == <<0, 31, 59, 90, 120, 151, 181, 212, 243, 273, 304, 334>>
MonthLen == <<31, 28, 31, 30, 31, 30, 31, 31, 30, 31, 30, 31>>

MkDate(y, m, d) == [y |-> y, m |-> m, d |-> d]

\* date.toordinal(), counted from 2025-01-01
Ordinal(dt) == (dt.y - 2025) * 365 + CumDays[dt.m] + dt.d - 1

SeqIndex(seq, x) == CHOOSE i \in 1..Len(seq) : seq[i] = x
InSeq(seq, x) == \E i \in 1..Len(seq) : seq[i] = x

WeekdayName(dt) == WeekdayCycle[(Ordinal(dt) % 7) + 1]

Name(s, c) == [k |-> "name", s |-> s, c |-> c]
Num(n, w, c) == [k |-> "num", n |-> n, w |-> w, c |-> c]
IsoWord(dt) == [k |-> "iso", y |-> dt.y, m |-> dt.m, d |-> dt.d, c |-> FALSE]
SlashWord(dt) == [k |-> "slash", y |-> dt.y, m |-> dt.m, d |-> dt.d, c |-> FALSE]

Digits(n) == IF n < 10 THEN 1 ELSE IF n < 100 THEN 2 ELSE IF n < 1000 THEN 3 ELSE 4

\* "Wednesday, December 10, 2025"
LongDateText(dt) ==
    <<Name(WeekdayName(dt), TRUE), Name(MonthNames[dt.m], FALSE),
      Num(dt.d, Digits(dt.d), TRUE), Num(dt.y, 4, FALSE)>>
\* "Dec 10, 2025"
AbbrDateText(dt) ==
    <<Name(MonthAbbrs[dt.m], FALSE), Num(dt.d, Digits(dt.d), TRUE),
      Num(dt.y, 4, FALSE)>>
\* "2025-12-10"
IsoDateText(dt) == <<IsoWord(dt)>>
\* "12/10/2025"
SlashDateText(dt) == <<SlashWord(dt)>>
\* "Not found"
NotFoundText == <<Name("Not", FALSE), Name("found", FALSE)>>

\* dt_obj.strftime("%A, %B %d, %Y"), line 1753: %d is zero padded
StrftimeLong(dt) ==
    <<Name(WeekdayName(dt), TRUE), Name(MonthNames[dt.m], FALSE),
      Num(dt.d, 2, TRUE), Num(dt.y, 4, FALSE)>>

\* line 1732: date_str.replace(',', '').replace(' at', '')
CleanDateText(text) ==
    LET nocomma == [i \in 1..Len(text) |-> [text[i] EXCEPT !.c = FALSE]]
        keep == {i \in 1..Len(text) :
                    ~(i > 1 /\ nocomma[i].k = "name" /\ nocomma[i].s = "at")}
        Pick[i \in 0..Len(text)] ==
            IF i = 0 THEN <<>>
            ELSE IF i \in keep THEN Append(Pick[i - 1], nocomma[i])
            ELSE Pick[i - 1]
    IN Pick[Len(text)]

\* regular expression classes over one word
ThreeLetterNames == {MonthAbbrs[i] : i \in 1..12} \cup {"Mon", "Tue", "Wed", "Thu", "Fri", "Sat", "Sun", "Not"}
ReWord(w) == w.k \in {"name", "num"} /\ ~w.c
ReWord3(w) ==
    /\ ~w.c
    /\ \/ (w.k = "name" /\ w.s \in ThreeLetterNames)
       \/ (w.k = "num" /\ w.w = 3)
ReDigits12(w) == w.k = "num" /\ ~w.c /\ w.w \in {1, 2}
ReDigits4(w) == w.k = "num" /\ ~w.c /\ w.w = 4

\* line 1737-1739: re.fullmatch of the three patterns
MatchesPattern(i, text) ==
    CASE i = 1 -> /\ Len(text) = 4
                  /\ ReWord(text[1]) /\ ReWord(text[2])
                  /\ ReDigits12(text[3]) /\ ReDigits4(text[4])
      [] i = 2 -> /\ Len(text) = 3
                  /\ ReWord3(text[1])
                  /\ ReDigits12(text[2]) /\ ReDigits4(text[3])
      [] i = 3 -> Len(text) = 1 /\ text[1].k = "iso"

ValidDate(y, m, d) == m \in 1..12 /\ d >= 1 /\ d <= MonthLen[m]

NoDate == [ok |-> FALSE]
SomeDate(dt) == [ok |-> TRUE, date |-> dt]

\* datetime.strptime(text, fmt) for the three formats of line 1737-1739;
\* NoDate stands for ValueError
Strptime(i, text) ==
    CASE i = 1 ->
            IF /\ text[1].k = "name" /\ InSeq(WeekdayCycle, text[1].s)
               /\ text[2].k = "name" /\ InSeq(MonthNames, text[2].s)
               /\ ValidDate(text[4].n, SeqIndex(MonthNames, text[2].s), text[3].n)
            THEN SomeDate(MkDate(text[4].n, SeqIndex(MonthNames, text[2].s), text[3].n))
            ELSE NoDate
      [] i = 2 ->
            IF /\ text[1].k = "name" /\ InSeq(MonthAbbrs, text[1].s)
               /\ ValidDate(text[3].n, SeqIndex(MonthAbbrs, text[1].s), text[2].n)
            THEN SomeDate(MkDate(text[3].n, SeqIndex(MonthAbbrs, text[1].s), text[2].n))
            ELSE NoDate
      [] i = 3 ->
            IF ValidDate(text[1].y, text[1].m, text[1].d)
            THEN SomeDate(MkDate(text[1].y, text[1].m, text[1].d))
            ELSE NoDate

\* line 1742-1749: the first pattern that matches and parses wins
RECURSIVE TryFormats(_, _)
TryFormats(i, text) ==
    IF i > 3 THEN NoDate
    ELSE IF MatchesPattern(i, text) /\ Strptime(i, text).ok
         THEN Strptime(i, text)
         ELSE TryFormats(i + 1, text)

\* line 1726-1756: the date of one event; NoDate stands for datetime.max
ParseEventDate(date_str) ==
    IF date_str = <<>> \/ date_str = NotFoundText
    THEN NoDate
    ELSE TryFormats(1, CleanDateText(date_str))

----------------------------------------------------------------------------
(* Time texts and parse_time_to_sortable *)

\* "10:00 AM" (minutes = TRUE) or "10 AM" (minutes = FALSE)
ClockText(h, m, ap, minutes) ==
    [k |-> "clock", h |-> h, m |-> m, ap |-> ap, minutes |-> minutes]
AllDayText == [k |-> "allday"]
OtherTimeText(s) == [k |-> "text", s |-> s]
\* "10:00 AM - 11:00 AM": two texts around a hyphen, an en dash or a word
RangeText(start, sep, end) ==
    [k |-> "range", start |-> start, sep |-> sep, end |-> end]

\* the separators the regular expression of re.split names: the en dash and
\* the hyphen
Dashes == {"hyphen", "endash"}

\* datetime.strptime(text.replace(" ", ""), '%I:%M%p') succeeds
ClockParses(t) ==
    t.k = "clock" /\ t.minutes /\ t.h \in 1..12 /\ t.m \in 0..59

\* datetime.min.time()
MinTime == 0

\* line 199-218, as minutes after midnight.  The spaces are removed from the
\* text before strptime, so only '%I:%M%p' can match: '%I:%M %p' and '%I %p'
\* need a space and '%-I...' is rejected by strptime.
RECURSIVE parse_time_to_sortable(_)
parse_time_to_sortable(t) ==
    CASE t.k = "allday" -> MinTime
      [] t.k = "text" -> MinTime
      [] t.k = "range" ->
            IF t.sep \in Dashes THEN parse_time_to_sortable(t.start)
            ELSE MinTime
      [] t.k = "clock" ->
            IF t.minutes /\ t.h \in 1..12 /\ t.m \in 0..59
            THEN ((t.h % 12) + (IF t.ap = "PM" THEN 12 ELSE 0)) * 60 + t.m
            ELSE MinTime

----------------------------------------------------------------------------
(* main(): merge, de-duplication, date processing, window filter, sort      *)

DEFAULT_DAYS_TO_FETCH == 31

\* the date window compute_date_window() hands to main()
START_DATE == MkDate(2025, 12, 10)
DAYS_TO_FETCH == DEFAULT_DAYS_TO_FETCH

\* an event dict as the adapters build it
Rec(lib, title, date, time, desc) ==
    [Library |-> lib, Title |-> title, Date |-> date, Time |-> time,
     Description |-> desc]

\* the entries of asyncio.gather's result
ListResult(l) == [kind |-> "list", val |-> l]
ExcResult(e) == [kind |-> "exc", err |-> e]

\* line 1695: [event for res in all_results if isinstance(res, list) for event in res]
RECURSIVE MergeFrom(_, _)
MergeFrom(i, results) ==
    IF i > Len(results) THEN <<>>
    ELSE (IF results[i].kind = "list" THEN results[i].val ELSE <<>>)
            \o MergeFrom(i + 1, results)

MergeResults(results) == MergeFrom(1, results)

\* mutation: the description takes part in the identity
Identifier_withDescription(e) == <<e.Library, e.Title, e.Date, e.Time, e.Description>>

\* line 1701
Identifier(e) == <<e.Library, e.Title, e.Date, e.Time>>

\* line 1699-1703: one linear pass with the set of identifiers seen so far
RECURSIVE DedupFrom(_, _, _, _)
DedupFrom(i, events, unique, seen) ==
    IF i > Len(events) THEN unique
    ELSE IF Identifier(events[i]) \notin seen
         THEN DedupFrom(i + 1, events, Append(unique, events[i]),
                        seen \cup {Identifier(events[i])})
         ELSE DedupFrom(i + 1, events, unique, seen)

RemoveDuplicates(events) == DedupFrom(1, events, <<>>, {})

\* mutation: the parsed date is not written back into the event
ProcessEvent_rawDate(e) ==
    [Library |-> e.Library, Title |-> e.Title, Date |-> e.Date,
     Time |-> e.Time, Description |-> e.Description,
     datetime_obj |-> ParseEventDate(e.Date),
     time_obj |-> parse_time_to_sortable(e.Time)]

\* line 1720-1762: one event after the date and time processing
ProcessEvent(e) ==
    LET dt == ParseEventDate(e.Date)
    IN [Library |-> e.Library, Title |-> e.Title,
        Date |-> IF dt.ok THEN StrftimeLong(dt.date) ELSE e.Date,
        Time |-> e.Time, Description |-> e.Description,
        datetime_obj |-> dt,
        time_obj |-> parse_time_to_sortable(e.Time)]

ProcessEvents(events) == [i \in 1..Len(events) |-> ProcessEvent(events[i])]

\* line 1713-1717
WindowStart == Ordinal(START_DATE)
WindowEnd == WindowStart + (IF DAYS_TO_FETCH - 1 > 0 THEN DAYS_TO_FETCH - 1 ELSE 0)

\* line 1768: datetime.max lies after every window
InWindow(e) ==
    /\ e.datetime_obj.ok
    /\ WindowStart <= Ordinal(e.datetime_obj.date)
    /\ Ordinal(e.datetime_obj.date) <= WindowEnd

\* line 1765-1769
FilterWindow(events) == SelectSeq(events, InWindow)

\* Python's order of the library names
LibraryOrder ==
    <<"CPL Budlong Woods", "CPL Edgebrook", "Chicago Park District", "Evanston",
      "Forest Preserves of Cook County", "Glencoe", "Lincolnwood",
      "Morton Grove", "Niles", "Skokie", "Skokie Park District", "Wilmette">>
LibraryRank(lib) == SeqIndex(LibraryOrder, lib)

\* line 1776: the key (datetime_obj, Library, time_obj), compared as tuples
KeyLess(a, b) ==
    LET da == Ordinal(a.datetime_obj.date)
        db == Ordinal(b.datetime_obj.date)
        la == LibraryRank(a.Library)
        lb == LibraryRank(b.Library)
    IN \/ da < db
       \/ (da = db /\ la < lb)
       \/ (da = db /\ la = lb /\ a.time_obj < b.time_obj)

\* insert e after every element that is not greater than it (stable)
RECURSIVE InsertSorted(_, _)
InsertSorted(sorted, e) ==
    IF sorted = <<>> THEN <<e>>
    ELSE IF KeyLess(e, Head(sorted))
         THEN <<e>> \o sorted
         ELSE <<Head(sorted)>> \o InsertSorted(Tail(sorted), e)

\* list.sort(key=...), line 1776
RECURSIVE SortFrom(_, _, _)
SortFrom(i, events, sorted) ==
    IF i > Len(events) THEN sorted
    ELSE SortFrom(i + 1, events, InsertSorted(sorted, events[i]))

SortEvents(events) == SortFrom(1, events, <<>>)

\* line 1787: the row of the CSV file, without the helper columns
CsvRow(e) == Rec(e.Library, e.Title, e.Date, e.Time, e.Description)

\* the file the CSV export leaves behind; NoFile when main() returned early
NoFile == [written |-> FALSE]
CsvFile(events) ==
    [written |-> TRUE, rows |-> [i \in 1..Len(events) |-> CsvRow(events[i])]]

\* line 1547: an event whose date was not parsed is skipped by the calendar
HasDatetime(e) == e.datetime_obj.ok

\* line 1543-1617: the events of the list that get a VEVENT
IcsEvents(events) == SelectSeq(events, HasDatetime)

\* line 1480-1513: the PDF report has one subsection per event of the list
PdfRows(events) == [i \in 1..Len(events) |-> CsvRow(events[i])]

\* line 1764-1776: the list main() hands to the three report generators
ReportedEvents(events) ==
    IF FilterWindow(events) = <<>> THEN <<>>
    ELSE SortEvents(FilterWindow(events))

\* line 1779: generate_ics_file(all_events, base_filename)
ics_file == IcsEvents(ReportedEvents(processed))

\* line 1780: generate_pdf_report(all_events, base_filename)
pdf_file == PdfRows(ReportedEvents(processed))

\* line 1707-1792 applied to the de-duplicated list
ExportOf(unique) ==
    IF unique = <<>> THEN NoFile
    ELSE LET filtered == FilterWindow(ProcessEvents(unique))
         IN IF filtered = <<>> THEN NoFile
            ELSE CsvFile(SortEvents(filtered))

----------------------------------------------------------------------------
(* retry_with_backoff *)

Min(a, b) == IF a <= b THEN a ELSE b

\* delay arguments explored: the default and one that makes the 30 s cap bind
DelayArgs == {RETRY_DELAY, 16}

\* Retry-After header values: a string of digits is modelled by its value
RetryAfterDigits == {0, 1, 59, 60, 61, 3600}
RetryAfterValues ==
    {[kind |-> "missing"], [kind |-> "empty"], [kind |-> "text"]}
      \cup {[kind |-> "digits", val |-> n] : n \in RetryAfterDigits}

\* e.headers as getattr(e, 'headers', {}) sees it
HeaderValues ==
    {[kind |-> "noattr"], [kind |-> "None"]}
      \cup {[kind |-> "dict", retry_after |-> r] : r \in RetryAfterValues}

\* The exceptions func can raise, by the except clause that catches them.
\*   transient : clause 1 (ConnectionError, requests ConnectionError/Timeout,
\*               aiohttp.ClientConnectionError, aiohttp.ServerTimeoutError)
\*   client    : clause 2 (any other aiohttp.ClientError)
\*   other     : clause 3 (Exception)
TransientErrors == {[cls |-> "transient", id |-> i] : i \in {"conn", "timeout"}}
ClientErrors ==
    {[cls |-> "client", msg429 |-> m, status |-> s, headers |-> h] :
        m \in BOOLEAN, s \in {"nostatus", "429", "404"}, h \in HeaderValues}
OtherErrors == {[cls |-> "other", id |-> i] : i \in {"ValueError", "HTTP429"}}
Results == {[cls |-> "ok", val |-> v] : v \in {"r1", "r2"}}

\* line 131: '429' in msg or hasattr(e, 'status') and e.status == 429
IsRateLimit(e) == e.msg429 \/ e.status = "429"

\* which branch of the try statement an outcome of func takes
OutcomeKind(o) ==
    IF o.cls = "client"
    THEN (IF IsRateLimit(o) THEN "ratelimit" ELSE "client")
    ELSE o.cls

\* mutation: the server's hint is used without the 60 s ceiling
RateLimitWait_uncapped(e, d, a) ==
    LET ra == IF e.headers.kind = "dict" THEN e.headers.retry_after
              ELSE [kind |-> "missing"]
    IN IF ra.kind = "digits"
       THEN ra.val
       ELSE Min(d * 2 ^ a, BackoffCap)

\* line 136-140: the wait chosen after a 429
\* getattr(e, 'headers', {}).get('Retry-After'); isdigit(); caps
RateLimitWait(e, d, a) ==
    LET ra == IF e.headers.kind = "dict" THEN e.headers.retry_after
              ELSE [kind |-> "missing"]
    IN IF ra.kind = "digits"
       THEN Min(ra.val, RetryAfterCap)
       ELSE Min(d * 2 ^ a, BackoffCap)

\* mutation: the wait does not grow with the attempt number
TransientWait_flat(d, a) == d

\* line 125
TransientWait(d, a) == d * 2 ^ a

RetryInit ==
    /\ rb_pc = "loop"
    /\ max_retries \in 1..MaxRetriesArg
    /\ delay \in DelayArgs
    /\ attempt = 0
    /\ calls = 0
    /\ sleeps = <<>>
    /\ history = <<>>
    /\ last = [cls |-> "none"]
    /\ rb_out = [kind |-> "none"]

RetryIdle ==
    /\ rb_pc = "idle"
    /\ max_retries = MAX_RETRIES
    /\ delay = RETRY_DELAY
    /\ attempt = 0
    /\ calls = 0
    /\ sleeps = <<>>
    /\ history = <<>>
    /\ last = [cls |-> "none"]
    /\ rb_out = [kind |-> "none"]

\* the await of func at line 120, entered with the loop still running
Invoke(o) ==
    /\ rb_pc = "loop"
    /\ attempt < max_retries
    /\ calls' = calls + 1
    /\ history' = Append(history, OutcomeKind(o))
    /\ last' = o

\* line 120: func returned
RB_Success ==
    \E r \in Results :
        /\ Invoke(r)
        /\ rb_pc' = "returned"
        /\ rb_out' = [kind |-> "return", val |-> r.val]
        /\ UNCHANGED <<max_retries, delay, attempt, sleeps>>

\* lines 121-127
RB_Transient ==
    \E e \in TransientErrors :
        /\ Invoke(e)
        /\ IF attempt = max_retries - 1
           THEN /\ rb_pc' = "raised"
                /\ rb_out' = [kind |-> "raise", err |-> e]
                /\ UNCHANGED sleeps
           ELSE /\ rb_pc' = "sleep"
                /\ sleeps' = Append(sleeps, TransientWait(delay, attempt))
                /\ UNCHANGED rb_out
        /\ UNCHANGED <<max_retries, delay, attempt>>

\* lines 128-142: aiohttp.ClientError carrying a 429
RB_RateLimit ==
    \E e \in ClientErrors :
        /\ IsRateLimit(e)
        /\ Invoke(e)
        /\ IF attempt = max_retries - 1
           THEN /\ rb_pc' = "raised"
                /\ rb_out' = [kind |-> "raise", err |-> e]
                /\ UNCHANGED sleeps
           ELSE IF e.headers.kind = "None"
           THEN \* None.get(...) raises AttributeError inside the handler
                /\ rb_pc' = "raised"
                /\ rb_out' = [kind |-> "raise",
                              err |-> [cls |-> "other", id |-> "AttributeError"]]
                /\ UNCHANGED sleeps
           ELSE /\ rb_pc' = "sleep"
                /\ sleeps' = Append(sleeps, RateLimitWait(e, delay, attempt))
                /\ UNCHANGED rb_out
        /\ UNCHANGED <<max_retries, delay, attempt>>

\* lines 143-145: any other aiohttp.ClientError
RB_ClientError ==
    \E e \in ClientErrors :
        /\ ~IsRateLimit(e)
        /\ Invoke(e)
        /\ rb_pc' = "raised"
        /\ rb_out' = [kind |-> "raise", err |-> e]
        /\ UNCHANGED <<max_retries, delay, attempt, sleeps>>

\* mutation: an unclassified error is retried like a transient one
RB_OtherError_retried ==
    \E e \in OtherErrors :
        /\ Invoke(e)
        /\ IF attempt = max_retries - 1
           THEN /\ rb_pc' = "raised"
                /\ rb_out' = [kind |-> "raise", err |-> e]
                /\ UNCHANGED sleeps
           ELSE /\ rb_pc' = "sleep"
                /\ sleeps' = Append(sleeps, delay * 2 ^ attempt)
                /\ UNCHANGED rb_out
        /\ UNCHANGED <<max_retries, delay, attempt>>

\* lines 146-148
RB_OtherError ==
    \E e \in OtherErrors :
        /\ Invoke(e)
        /\ rb_pc' = "raised"
        /\ rb_out' = [kind |-> "raise", err |-> e]
        /\ UNCHANGED <<max_retries, delay, attempt, sleeps>>

\* asyncio.sleep returns and the for loop takes its next value
RB_Wake ==
    /\ rb_pc = "sleep"
    /\ attempt' = attempt + 1
    /\ rb_pc' = "loop"
    /\ UNCHANGED <<max_retries, delay, calls, sleeps, history, last, rb_out>>

----------------------------------------------------------------------------
(* library.py: retry_with_backoff *)

\* the seconds a 429 message suggests with "retry after N s", or no such text
MessageHints ==
    {[given |-> FALSE]} \cup {[given |-> TRUE, s |-> n] : n \in {0, 1, 60, 61, 3600}}

\* the aiohttp.ClientError instances func can raise in library.py: whether
\* the message holds '429', and the hint of the message
LibClientErrors ==
    {[cls |-> "client", msg429 |-> m, status |-> "nostatus",
      headers |-> [kind |-> "noattr"], hint |-> h] :
        m \in BOOLEAN, h \in MessageHints}

\* library.py line 83-84: int(m.group(1)) if m else delay * (2 ** attempt)
LibRateLimitWait(e, d, a) ==
    IF e.hint.given THEN e.hint.s ELSE d * 2 ^ a

\* library.py line 79-90: aiohttp.ClientError with '429' in its message
L_RateLimit ==
    \E e \in LibClientErrors :
        /\ e.msg429
        /\ Invoke(e)
        /\ IF attempt = max_retries - 1
           THEN /\ rb_pc' = "raised"
                /\ rb_out' = [kind |-> "raise", err |-> e]
                /\ UNCHANGED sleeps
           ELSE /\ rb_pc' = "sleep"
                /\ sleeps' = Append(sleeps, LibRateLimitWait(e, delay, attempt))
                /\ UNCHANGED rb_out
        /\ UNCHANGED <<max_retries, delay, attempt>>

\* library.py line 91-93: any other aiohttp.ClientError
L_ClientError ==
    \E e \in LibClientErrors :
        /\ ~e.msg429
        /\ Invoke(e)
        /\ rb_pc' = "raised"
        /\ rb_out' = [kind |-> "raise", err |-> e]
        /\ UNCHANGED <<max_retries, delay, attempt, sleeps>>

----------------------------------------------------------------------------
(* main() from the merged list on, for any merged list *)

D10 == MkDate(2025, 12, 10)
D11 == MkDate(2025, 12, 11)

\* the date texts of the explored records: two variants of one day, another
\* day, and the "Not found" marker
PipeDates == {AbbrDateText(D10), IsoDateText(D10), LongDateText(D11), NotFoundText}

PipeRecords ==
    {Rec(lib, "Storytime", d, ClockText(10, 0, "AM", TRUE), desc) :
        lib \in {"Lincolnwood", "Morton Grove"}, d \in PipeDates,
        desc \in {"d1", "d2"}}

SeqsUpTo(S, n) == UNION {[1..k -> S] : k \in 0..n}

PipeInit ==
    /\ p_pc = "merged"
    /\ all_events \in SeqsUpTo(PipeRecords, MaxEvents)
    /\ unique_events = <<>>
    /\ processed = <<>>
    /\ csv_file = NoFile
    /\ rededup = <<>>

\* the records of the time family: one source, one day, every kind of time text
PipeTimes ==
    {AllDayText, OtherTimeText("Not found"), OtherTimeText("See site"),
     ClockText(12, 0, "AM", TRUE), ClockText(10, 0, "AM", TRUE),
     ClockText(2, 0, "PM", TRUE)}
TimeRecords ==
    {Rec("Lincolnwood", "Storytime", LongDateText(D10), t, "d1") : t \in PipeTimes}

PipeTimesInit ==
    /\ p_pc = "merged"
    /\ all_events \in SeqsUpTo(TimeRecords, MaxEvents)
    /\ unique_events = <<>>
    /\ processed = <<>>
    /\ csv_file = NoFile
    /\ rededup = <<>>

\* the records of the date family: one day in the four forms the sources emit
\* ("Wednesday, December 10, 2025", "Dec 10, 2025", "12/10/2025",
\* "2025-12-10"), at different times
VariantDates ==
    {LongDateText(D10), AbbrDateText(D10), SlashDateText(D10), IsoDateText(D10)}
DateRecords ==
    {Rec("Lincolnwood", "Storytime", d, t, "d1") :
        d \in VariantDates,
        t \in {ClockText(10, 0, "AM", TRUE), ClockText(2, 0, "PM", TRUE)}}

PipeDatesInit ==
    /\ p_pc = "merged"
    /\ all_events \in SeqsUpTo(DateRecords, MaxEvents)
    /\ unique_events = <<>>
    /\ processed = <<>>
    /\ csv_file = NoFile
    /\ rededup = <<>>

PipeIdle ==
    /\ p_pc = "idle"
    /\ all_events = <<>>
    /\ unique_events = <<>>
    /\ processed = <<>>
    /\ csv_file = NoFile
    /\ rededup = <<>>

\* line 1698-1709
P_Dedup ==
    /\ p_pc = "merged"
    /\ unique_events' = RemoveDuplicates(all_events)
    /\ p_pc' = IF unique_events' = <<>> THEN "returned" ELSE "deduped"
    /\ UNCHANGED <<all_events, processed, csv_file, rededup>>

\* line 1711-1762
P_Process ==
    /\ p_pc = "deduped"
    /\ processed' = ProcessEvents(unique_events)
    /\ p_pc' = "processed"
    /\ UNCHANGED <<all_events, unique_events, csv_file, rededup>>

\* line 1764-1792
P_Export ==
    /\ p_pc = "processed"
    /\ csv_file' = IF FilterWindow(processed) = <<>> THEN NoFile
                   ELSE CsvFile(SortEvents(FilterWindow(processed)))
    /\ p_pc' = "returned"
    /\ UNCHANGED <<all_events, unique_events, processed, rededup>>

\* the pass of line 1698-1705 run once more, on its own output
P_DedupAgain ==
    /\ p_pc = "returned"
    /\ rededup' = RemoveDuplicates(unique_events)
    /\ p_pc' = "rechecked"
    /\ UNCHANGED <<all_events, unique_events, processed, csv_file>>

----------------------------------------------------------------------------
(* main(): the adapter tasks under asyncio.gather *)

\* line 1674-1687: the task list, with the Library each adapter writes into
\* its records and the transport it fetches through
Tasks ==
    <<[name |-> "fetch_lincolnwood_events", library |-> "Lincolnwood", transport |-> "firecrawl"],
      [name |-> "fetch_mgpl_events", library |-> "Morton Grove", transport |-> "firecrawl"],
      [name |-> "fetch_glencoe_events", library |-> "Glencoe", transport |-> "requests"],
      [name |-> "fetch_bibliocommons_events", library |-> "Evanston", transport |-> "firecrawl"],
      [name |-> "fetch_bibliocommons_events", library |-> "CPL Edgebrook", transport |-> "firecrawl"],
      [name |-> "fetch_bibliocommons_events", library |-> "CPL Budlong Woods", transport |-> "firecrawl"],
      [name |-> "fetch_libnet_events", library |-> "Wilmette", transport |-> "requests"],
      [name |-> "fetch_skokie_events", library |-> "Skokie", transport |-> "firecrawl"],
      [name |-> "fetch_skokie_parks_events", library |-> "Skokie Park District", transport |-> "requests"],
      [name |-> "fetch_chicago_parks_events", library |-> "Chicago Park District", transport |-> "firecrawl"],
      [name |-> "fetch_fpdcc_events", library |-> "Forest Preserves of Cook County", transport |-> "requests"],
      [name |-> "fetch_libnet_events", library |-> "Niles", transport |-> "requests"]>>

RunTasks == 1..NumTasks

\* the events an adapter parses out of a good response: a story time on
\* 2025-12-10 and a second record; Morton Grove writes its dates in two forms
\* (line 450-456), the other adapters in the long form
Payload(a) ==
    IF Tasks[a].library = "Morton Grove"
    THEN <<Rec("Morton Grove", "Storytime", AbbrDateText(D10), ClockText(10, 0, "AM", TRUE), "d1"),
           Rec("Morton Grove", "Storytime", LongDateText(D10), ClockText(10, 0, "AM", TRUE), "d2")>>
    ELSE <<Rec(Tasks[a].library, "Storytime", LongDateText(D10), ClockText(10, 0, "AM", TRUE), "d1"),
           Rec(Tasks[a].library, "Crafts", LongDateText(D11), ClockText(2, 0, "PM", TRUE), "d2")>>

Finished == {completed[i].task : i \in 1..Len(completed)}

\* Python's None among object identities 1, 2, ...
None == 0

\* line 98: _http_session = None; `open` is the set of ClientSession objects
\* that were made and not closed, `ref` the one the global refers to
NoSession == [ref |-> None, open |-> {}]

\* line 105: a ClientSession object distinct from every open one
NewSession(session) == Cardinality(session.open) + 1

RunInit ==
    /\ p_pc = "start"
    /\ all_events = <<>>
    /\ unique_events = <<>>
    /\ processed = <<>>
    /\ csv_file = NoFile
    /\ rededup = <<>>
    /\ completed = <<>>
    /\ all_results = <<>>
    /\ http_session = NoSession

RunIdle ==
    /\ completed = <<>>
    /\ all_results = <<>>
    /\ http_session = NoSession

\* mutation: a new ClientSession is made on every call
get_http_session_alwaysNew(session) ==
    [ref |-> NewSession(session), open |-> session.open \cup {NewSession(session)}]

\* line 100-106
get_http_session(session) ==
    IF session.ref = None
    THEN [ref |-> NewSession(session), open |-> session.open \cup {NewSession(session)}]
    ELSE session

\* line 108-112
close_http_session(session) ==
    IF session.ref # None
    THEN [ref |-> None, open |-> session.open \ {session.ref}]
    ELSE session

\* line 1690: gather starts every task; each runs up to its first request,
\* and the adapters that fetch over HTTP take the shared session on the way
M_Launch ==
    /\ p_pc = "start"
    /\ p_pc' = "gather"
    /\ http_session' =
          IF \E a \in RunTasks : Tasks[a].transport = "requests"
          THEN get_http_session(http_session)
          ELSE http_session
    /\ UNCHANGED <<all_events, unique_events, processed, csv_file, rededup,
                   completed, all_results>>

Complete(a, out, failed) ==
    /\ p_pc = "gather"
    /\ a \in RunTasks \ Finished
    /\ completed' = Append(completed, [task |-> a, out |-> out, failed |-> failed])
    /\ UNCHANGED <<p_pc, all_events, unique_events, processed, csv_file,
                   rededup, all_results, http_session>>

\* an adapter returns the events it parsed (none, or its payload)
A_Return ==
    \E a \in RunTasks : \E l \in {<<>>, Payload(a)} :
        Complete(a, ListResult(l), FALSE)

\* the fetch of an adapter fails for good (retries exhausted or an error
\* that is not retried); the adapter logs it and returns an empty list
\* (line 289-299, 582-589, 959-962)
A_FetchFailed ==
    \E a \in RunTasks : Complete(a, ListResult(<<>>), TRUE)

\* an exception leaves the adapter coroutine
A_Raise ==
    \E a \in RunTasks : Complete(a, ExcResult("Exception"), FALSE)

\* mutation: the results are listed in the order the tasks finished
GatherResults_completionOrder(done) == [i \in 1..Len(done) |-> done[i].out]

\* asyncio.gather(*tasks, return_exceptions=True): one entry per task, in the
\* order of the task list
GatherResults(done) ==
    [a \in 1..Len(done) |-> done[CHOOSE i \in 1..Len(done) : done[i].task = a].out]

\* line 1689-1693: gather returns when every task has finished; the finally
\* clause closes the session
M_GatherReturns ==
    /\ p_pc = "gather"
    /\ Finished = RunTasks
    /\ all_results' = GatherResults(completed)
    /\ http_session' = close_http_session(http_session)
    /\ p_pc' = "gathered"
    /\ UNCHANGED <<all_events, unique_events, processed, csv_file, rededup,
                   completed>>

\* line 1695-1792: merge, de-duplicate, process, filter, sort, export
M_Process ==
    /\ p_pc = "gathered"
    /\ all_events' = MergeResults(all_results)
    /\ unique_events' = RemoveDuplicates(all_events')
    /\ processed' = IF unique_events' = <<>> THEN <<>>
                    ELSE ProcessEvents(unique_events')
    /\ csv_file' = ExportOf(unique_events')
    /\ p_pc' = "returned"
    /\ UNCHANGED <<rededup, completed, all_results, http_session>>

\* library_web_gui.py line 1009-1027: subprocess.run(..., timeout=330) kills
\* the scraper process when the time is up, wherever main() stands
W_Timeout ==
    /\ p_pc \in {"start", "gather", "gathered"}
    /\ p_pc' = "killed"
    /\ UNCHANGED <<all_events, unique_events, processed, csv_file, rededup,
                   completed, all_results, http_session>>

----------------------------------------------------------------------------
(* FIRECRAWL_SEM and REQUESTS_SEM *)

Callers == 1..NumCallers

\* mutation: one semaphore guards both transports
SemOf_shared(a) == "firecrawl"

\* the semaphore a request of adapter a goes through: firecrawl_scrape takes
\* FIRECRAWL_SEM (line 153), the aiohttp requests take REQUESTS_SEM
\* (line 607, 750, 857, 1337)
SemOf(a) == Tasks[a].transport

SemInit ==
    /\ FIRECRAWL_CONCURRENCY \in 1..MaxPermits
    /\ REQUESTS_CONCURRENCY \in 1..MaxPermits
    /\ sem = [firecrawl |-> FIRECRAWL_CONCURRENCY, requests |-> REQUESTS_CONCURRENCY]
    /\ s_pc = [a \in Callers |-> "ready"]

SemIdle ==
    /\ FIRECRAWL_CONCURRENCY = 3
    /\ REQUESTS_CONCURRENCY = 5
    /\ sem = [firecrawl |-> 3, requests |-> 5]
    /\ s_pc = <<>>

\* `async with SEM:` entered: a permit is taken when one is free
S_AcquireBy(a) ==
    /\ s_pc[a] = "ready"
    /\ sem[SemOf(a)] > 0
    /\ sem' = [sem EXCEPT ![SemOf(a)] = @ - 1]
    /\ s_pc' = [s_pc EXCEPT ![a] = "inflight"]
    /\ UNCHANGED <<FIRECRAWL_CONCURRENCY, REQUESTS_CONCURRENCY>>

S_Acquire == \E a \in Callers : S_AcquireBy(a)

\* the request returns or raises and `async with` gives the permit back;
\* the adapter has another request to make (a retry or the next page)
S_ReleaseAgain ==
    \E a \in Callers :
        /\ s_pc[a] = "inflight"
        /\ Tasks[a].name # "fetch_libnet_events"
        /\ sem' = [sem EXCEPT ![SemOf(a)] = @ + 1]
        /\ s_pc' = [s_pc EXCEPT ![a] = "ready"]
        /\ UNCHANGED <<FIRECRAWL_CONCURRENCY, REQUESTS_CONCURRENCY>>

\* the request returns or raises and it was the last one of the adapter
S_ReleaseDone ==
    \E a \in Callers :
        /\ s_pc[a] = "inflight"
        /\ sem' = [sem EXCEPT ![SemOf(a)] = @ + 1]
        /\ s_pc' = [s_pc EXCEPT ![a] = "done"]
        /\ UNCHANGED <<FIRECRAWL_CONCURRENCY, REQUESTS_CONCURRENCY>>

----------------------------------------------------------------------------
(* The shared HTTP session around asyncio.gather *)

\* line 1674-1687: the tasks handed to gather
GatherTasks == 1..NumCallers

\* line 606, 728, 957, 1397: the adapters that fetch over aiohttp take the
\* shared session when they start
UsesSession(a) == Tasks[a].transport = "requests"

SessInit ==
    /\ t_pc = [a \in GatherTasks |-> "pending"]
    /\ m_pc = "gather"
    /\ http_session = NoSession
    /\ completed = <<>>
    /\ all_results = <<>>

SessIdle ==
    /\ t_pc = <<>>
    /\ m_pc = "idle"

\* the event loop runs a task up to its first suspension; get_http_session
\* has no await inside, so the test and the assignment are one step
T_Start ==
    \E a \in GatherTasks :
        /\ m_pc = "gather"
        /\ t_pc[a] = "pending"
        /\ t_pc' = [t_pc EXCEPT ![a] = "running"]
        /\ http_session' = IF UsesSession(a)
                           THEN get_http_session(http_session)
                           ELSE http_session
        /\ UNCHANGED <<m_pc, completed, all_results>>

\* the task returns its list or an exception leaves it
T_Finish ==
    \E a \in GatherTasks :
        /\ m_pc \in {"gather", "cancelling"}
        /\ t_pc[a] = "running"
        /\ t_pc' = [t_pc EXCEPT ![a] = "done"]
        /\ UNCHANGED <<m_pc, http_session, completed, all_results>>

\* the task that runs main() is cancelled while it waits at line 1690
\* (asyncio.run on KeyboardInterrupt): gather cancels its children
M_WaitCancelled ==
    /\ m_pc = "gather"
    /\ m_pc' = "cancelling"
    /\ UNCHANGED <<t_pc, http_session, completed, all_results>>

\* a cancelled child ends at its current await (no adapter catches
\* CancelledError), or never starts
T_Cancelled ==
    \E a \in GatherTasks :
        /\ m_pc = "cancelling"
        /\ t_pc[a] \in {"pending", "running"}
        /\ t_pc' = [t_pc EXCEPT ![a] = "cancelled"]
        /\ UNCHANGED <<m_pc, http_session, completed, all_results>>

\* line 1691-1693: the gather future completes when every child is done;
\* main() resumes in the finally clause, then goes on to the merge (line
\* 1695) or lets the error propagate
M_Finally ==
    /\ m_pc \in {"gather", "cancelling"}
    /\ \A a \in GatherTasks : t_pc[a] \in {"done", "cancelled"}
    /\ http_session' = close_http_session(http_session)
    /\ m_pc' = IF m_pc = "gather" THEN "merge" ELSE "raised"
    /\ UNCHANGED <<t_pc, completed, all_results>>


----------------------------------------------------------------------------
(* library_web_gui.py: refresh_data and run_scraper_background *)

Threads == 1..MaxRefreshes

\* the progress file is absent, or holds a summary with a state
NoProgress == [exists |-> FALSE, state |-> "none"]

\* library_web_gui.py line 752-773: the state a reader sees
read_progress_file(file) == IF ~file.exists THEN "idle" ELSE file.state

\* library_web_gui.py line 776-793: the summary of the record read is given
\* the new state and the record is written back
write_progress_stub(file, state) == [exists |-> TRUE, state |-> state]

\* Thread.is_alive(): started and run() not yet returned
IsAlive(t) == bg_pc[t] \notin {"unborn", "dead"}

RefreshInit ==
    /\ SCRAPER_THREAD = None
    /\ bg_pc = [t \in Threads |-> "unborn"]
    /\ proc = [t \in Threads |-> "none"]
    /\ PROGRESS_FILE \in {NoProgress,
                          write_progress_stub(NoProgress, "completed"),
                          write_progress_stub(NoProgress, "error")}
    /\ conflicts = 0

RefreshIdle ==
    /\ SCRAPER_THREAD = None
    /\ bg_pc = <<>>
    /\ proc = <<>>
    /\ PROGRESS_FILE = NoProgress
    /\ conflicts = 0

\* mutation: a new thread is started without looking at SCRAPER_THREAD
refresh_data_started_unchecked ==
    /\ \E t \in Threads :
          /\ bg_pc[t] = "unborn"
          /\ \A u \in Threads : u < t => bg_pc[u] # "unborn"
          /\ SCRAPER_THREAD' = t
          /\ bg_pc' = [bg_pc EXCEPT ![t] = "start"]
    /\ UNCHANGED <<proc, PROGRESS_FILE, conflicts>>

\* library_web_gui.py line 983-992, under SCRAPER_LOCK: no live thread, a
\* new one is started
refresh_data_started ==
    /\ ~(SCRAPER_THREAD # None /\ IsAlive(SCRAPER_THREAD))
    /\ \E t \in Threads :
          /\ bg_pc[t] = "unborn"
          /\ \A u \in Threads : u < t => bg_pc[u] # "unborn"
          /\ SCRAPER_THREAD' = t
          /\ bg_pc' = [bg_pc EXCEPT ![t] = "start"]
    /\ UNCHANGED <<proc, PROGRESS_FILE, conflicts>>

\* library_web_gui.py line 984-989: a thread is alive, the answer is 409
refresh_data_conflict ==
    /\ SCRAPER_THREAD # None /\ IsAlive(SCRAPER_THREAD)
    /\ conflicts < MaxConflicts
    /\ conflicts' = conflicts + 1
    /\ UNCHANGED <<SCRAPER_THREAD, bg_pc, proc, PROGRESS_FILE>>

\* library_web_gui.py line 1005
BG_Queued ==
    \E t \in Threads :
        /\ bg_pc[t] = "start"
        /\ PROGRESS_FILE' = write_progress_stub(PROGRESS_FILE, "queued")
        /\ bg_pc' = [bg_pc EXCEPT ![t] = "run"]
        /\ UNCHANGED <<SCRAPER_THREAD, proc, conflicts>>

\* library_web_gui.py line 1010: subprocess.run starts the scraper
BG_Spawn ==
    \E t \in Threads :
        /\ bg_pc[t] = "run"
        /\ proc' = [proc EXCEPT ![t] = "running"]
        /\ bg_pc' = [bg_pc EXCEPT ![t] = "wait"]
        /\ UNCHANGED <<SCRAPER_THREAD, PROGRESS_FILE, conflicts>>

\* library_web_gui.py line 1010, 1028-1029: the process cannot be started
\* (OSError), the except clause writes the error state
BG_SpawnFailed ==
    \E t \in Threads :
        /\ bg_pc[t] = "run"
        /\ PROGRESS_FILE' = write_progress_stub(PROGRESS_FILE, "error")
        /\ bg_pc' = [bg_pc EXCEPT ![t] = "finally"]
        /\ UNCHANGED <<SCRAPER_THREAD, proc, conflicts>>

\* the scraper process ends by itself: main() returned (exit status 0; the
\* scraper writes no progress record) or an exception left it (status 1)
Proc_Exit ==
    \E t \in Threads : \E status \in {"exit0", "exit1"} :
        /\ proc[t] = "running"
        /\ proc' = [proc EXCEPT ![t] = status]
        /\ UNCHANGED <<SCRAPER_THREAD, bg_pc, PROGRESS_FILE, conflicts>>

\* library_web_gui.py line 1018-1025: subprocess.run returned
BG_Returned ==
    \E t \in Threads :
        /\ bg_pc[t] = "wait"
        /\ proc[t] \in {"exit0", "exit1"}
        /\ PROGRESS_FILE' =
              IF proc[t] = "exit0"
              THEN IF ~PROGRESS_FILE.exists
                   THEN write_progress_stub(PROGRESS_FILE, "completed")
                   ELSE PROGRESS_FILE
              ELSE write_progress_stub(PROGRESS_FILE, "error")
        /\ bg_pc' = [bg_pc EXCEPT ![t] = "finally"]
        /\ UNCHANGED <<SCRAPER_THREAD, proc, conflicts>>

\* library_web_gui.py line 1014, 1026-1027: the 330 s are over, the process
\* is killed and TimeoutExpired is handled
BG_TimeoutExpired ==
    \E t \in Threads :
        /\ bg_pc[t] = "wait"
        /\ proc[t] = "running"
        /\ proc' = [proc EXCEPT ![t] = "killed"]
        /\ PROGRESS_FILE' = write_progress_stub(PROGRESS_FILE, "error")
        /\ bg_pc' = [bg_pc EXCEPT ![t] = "finally"]
        /\ UNCHANGED <<SCRAPER_THREAD, conflicts>>

\* library_web_gui.py line 1030-1033, then the thread ends
BG_Finally ==
    \E t \in Threads :
        /\ bg_pc[t] = "finally"
        /\ SCRAPER_THREAD' = None
        /\ bg_pc' = [bg_pc EXCEPT ![t] = "dead"]
        /\ UNCHANGED <<proc, PROGRESS_FILE, conflicts>>

BG_Steps ==
    \/ BG_Queued \/ BG_Spawn \/ BG_SpawnFailed \/ Proc_Exit \/ BG_Returned
    \/ BG_TimeoutExpired \/ BG_Finally


----------------------------------------------------------------------------
(* library_web_gui.py: strings as sequences of characters *)

UpperCase ==
    <<"A", "B", "C", "D", "E", "F", "G", "H", "I", "J", "K", "L", "M", "N",
      "O", "P", "Q", "R", "S", "T", "U", "V", "W", "X", "Y", "Z">>
LowerCase ==
    <<"a", "b", "c", "d", "e", "f", "g", "h", "i", "j", "k", "l", "m", "n",
      "o", "p", "q", "r", "s", "t", "u", "v", "w", "x", "y", "z">>

\* str.lower()
LowerChar(c) == IF InSeq(UpperCase, c) THEN LowerCase[SeqIndex(UpperCase, c)] ELSE c
Lower(s) == [i \in 1..Len(s) |-> LowerChar(s[i])]

IsSpace(c) == c = " "

\* str.strip()
RECURSIVE LStrip(_)
LStrip(s) == IF s # <<>> /\ IsSpace(Head(s)) THEN LStrip(Tail(s)) ELSE s
RECURSIVE RStrip(_)
RStrip(s) ==
    IF s # <<>> /\ IsSpace(s[Len(s)]) THEN RStrip(SubSeq(s, 1, Len(s) - 1)) ELSE s
Strip(s) == LStrip(RStrip(s))

\* `sub in s` for two strings
Contains(sub, s) ==
    \E i \in 0..(Len(s) - Len(sub)) : SubSeq(s, i + 1, i + Len(sub)) = sub

\* " ".join(values)
RECURSIVE JoinSpace(_)
JoinSpace(values) ==
    IF values = <<>> THEN <<>>
    ELSE IF Len(values) = 1 THEN values[1]
    ELSE values[1] \o <<" ">> \o JoinSpace(Tail(values))

\* str.split(sep) for a separator of one character
RECURSIVE SplitFrom(_, _, _)
SplitFrom(s, sep, cur) ==
    IF s = <<>> THEN <<cur>>
    ELSE IF Head(s) = sep THEN <<cur>> \o SplitFrom(Tail(s), sep, <<>>)
    ELSE SplitFrom(Tail(s), sep, Append(cur, Head(s)))
Split(s, sep) == SplitFrom(s, sep, <<>>)

\* length of the longest prefix of s without a double quote: [^"]*
RECURSIVE NoQuoteRun(_)
NoQuoteRun(s) == IF s # <<>> /\ Head(s) # "\"" THEN 1 + NoQuoteRun(Tail(s)) ELSE 0

\* length of the longest prefix of s without white space: \S*
RECURSIVE NoSpaceRun(_)
NoSpaceRun(s) == IF s # <<>> /\ ~IsSpace(Head(s)) THEN 1 + NoSpaceRun(Tail(s)) ELSE 0

\* library_web_gui.py line 385-389:
\* re.finditer(r'"([^"]+)"|(\S+)', raw), each match stripped, empty ones
\* dropped
RECURSIVE SearchTokens(_)
SearchTokens(raw) ==
    IF raw = <<>> THEN <<>>
    ELSE LET inner == NoQuoteRun(Tail(raw))
             quoted == /\ Head(raw) = "\""
                       /\ inner >= 1
                       /\ Len(raw) >= inner + 2
             word == NoSpaceRun(raw)
             token == IF quoted THEN Strip(SubSeq(raw, 2, inner + 1))
                      ELSE SubSeq(raw, 1, word)
             rest == IF quoted THEN SubSeq(raw, inner + 3, Len(raw))
                     ELSE SubSeq(raw, word + 1, Len(raw))
         IN IF ~quoted /\ word = 0 THEN SearchTokens(Tail(raw))
            ELSE IF token = <<>> THEN SearchTokens(rest)
            ELSE <<token>> \o SearchTokens(rest)

----------------------------------------------------------------------------
(* library_web_gui.py: the snapshot events_data and the helpers of          *)
(* filter_events                                                            *)

\* string literals
S_Skokie == <<"S", "k", "o", "k", "i", "e">>
S_Lincolnwood == <<"L", "i", "n", "c", "o", "l", "n", "w", "o", "o", "d">>
S_Evanston == <<"E", "v", "a", "n", "s", "t", "o", "n">>
S_ChicagoParkDistrict == <<"C", "h", "i", "c", "a", "g", "o", " ", "P", "a", "r", "k", " ", "D", "i", "s", "t", "r", "i", "c", "t">>
S_All == <<"A", "l", "l">>
S_any == <<"a", "n", "y">>
S_all == <<"a", "l", "l">>
S_exact == <<"e", "x", "a", "c", "t">>
S_fuzzy == <<"f", "u", "z", "z", "y">>
S_title == <<"t", "i", "t", "l", "e">>
S_description == <<"d", "e", "s", "c", "r", "i", "p", "t", "i", "o", "n">>
S_location == <<"l", "o", "c", "a", "t", "i", "o", "n">>
S_age == <<"a", "g", "e">>
S_age_group == <<"a", "g", "e", "_", "g", "r", "o", "u", "p">>
S_type == <<"t", "y", "p", "e">>
S_library == <<"l", "i", "b", "r", "a", "r", "y">>
S_60077 == <<"6", "0", "0", "7", "7">>
S_60201 == <<"6", "0", "2", "0", "1">>
S_chicago == <<"c", "h", "i", "c", "a", "g", "o">>

\* the key is not in the dict
Absent == -1

\* a row of the CSV snapshot as csv.DictReader yields it (line 685-693), with
\* the key '_distance' that filter_events adds
Event(lib, title, date, time, location, desc, age) ==
    [Library |-> lib, Title |-> title, Date |-> date, Time |-> time,
     Location |-> location, Description |-> desc, Age_Group |-> age,
     _distance |-> Absent]

\* library_web_gui.py line 301-310: parse_event_date, strptime with
\* "%A, %B %d, %Y" and then with "%Y-%m-%d" on the text as it is
parse_event_date(dstr) ==
    IF dstr = <<>> THEN NoDate
    ELSE IF /\ Len(dstr) = 4
            /\ dstr[1].k = "name" /\ dstr[1].c /\ InSeq(WeekdayCycle, dstr[1].s)
            /\ dstr[2].k = "name" /\ ~dstr[2].c /\ InSeq(MonthNames, dstr[2].s)
            /\ dstr[3].k = "num" /\ dstr[3].c /\ dstr[3].w \in {1, 2}
            /\ dstr[4].k = "num" /\ ~dstr[4].c /\ dstr[4].w = 4
            /\ ValidDate(dstr[4].n, SeqIndex(MonthNames, dstr[2].s), dstr[3].n)
    THEN SomeDate(MkDate(dstr[4].n, SeqIndex(MonthNames, dstr[2].s), dstr[3].n))
    ELSE IF /\ Len(dstr) = 1 /\ dstr[1].k = "iso"
            /\ ValidDate(dstr[1].y, dstr[1].m, dstr[1].d)
    THEN SomeDate(MkDate(dstr[1].y, dstr[1].m, dstr[1].d))
    ELSE NoDate

\* datetime.strptime(text, "%Y-%m-%d").date(), NoDate for ValueError
StrptimeIso(text) ==
    IF Len(text) = 1 /\ text[1].k = "iso" /\ ValidDate(text[1].y, text[1].m, text[1].d)
    THEN SomeDate(MkDate(text[1].y, text[1].m, text[1].d))
    ELSE NoDate

\* coordinates in 1/10000 degree
Coord(lat, lon) == [ok |-> TRUE, lat |-> lat, lon |-> lon]
NoCoord == [ok |-> FALSE]

\* library_web_gui.py line 271-298 (the entries of the libraries that occur
\* in the snapshots of the model)
get_library_coordinates(library_name) ==
    CASE library_name = S_Evanston -> Coord(420450, -876877)
      [] library_name = S_Lincolnwood -> Coord(420075, -877220)
      [] library_name = S_Skokie -> Coord(420406, -877334)
      [] OTHER -> NoCoord

\* library_web_gui.py line 84-250: geocode_address; `nominatim` is what the
\* Nominatim lookup of line 159-250 yields for an address that is neither a
\* known ZIP code nor a Chicago pattern (the ZIP codes of the model's
\* requests are listed)
geocode_address(address, nominatim) ==
    IF address = <<>> \/ Strip(address) = <<>> THEN NoCoord
    ELSE LET a == Strip(address)
         IN CASE a = S_60201 -> Coord(420450, -876877)
              [] a = S_60077 -> Coord(420406, -877334)
              [] a \notin {S_60201, S_60077} /\ Contains(S_chicago, Lower(a)) ->
                    Coord(418781, -876298)
              [] OTHER -> nominatim

\* library_web_gui.py line 253-267: haversine_distance in 1/1000 mile, for
\* the pairs of coordinates of the model (values of the Python function)
haversine_distance(from, to) ==
    CASE from = to -> 0
      [] {from, to} = {Coord(420406, -877334), Coord(420075, -877220)} -> 2359
      [] {from, to} = {Coord(420406, -877334), Coord(420450, -876877)} -> 2363
      [] {from, to} = {Coord(420450, -876877), Coord(420075, -877220)} -> 3130
      [] {from, to} = {Coord(418781, -876298), Coord(420406, -877334)} -> 12417
      [] {from, to} = {Coord(418781, -876298), Coord(420075, -877220)} -> 10112
      [] {from, to} = {Coord(418781, -876298), Coord(420450, -876877)} -> 11901

\* round(distance, 1), in 1/10 mile
Round1(distance) == (distance + 50) \div 100

----------------------------------------------------------------------------
(* library_web_gui.py: filter_events *)

\* the parameters of one call of filter_events; max_distance is in 1/1000
\* mile, Absent for None
Request(library_filters, type_filters, search_term, start_date, end_date, date_filter, search_fields, search_mode, user_address, max_distance, nominatim) ==
    [library_filters |-> library_filters, type_filters |-> type_filters,
     search_term |-> search_term, start_date |-> start_date,
     end_date |-> end_date, date_filter |-> date_filter,
     search_fields |-> search_fields, search_mode |-> search_mode,
     user_address |-> user_address, max_distance |-> max_distance,
     nominatim |-> nominatim]

\* library_web_gui.py line 348 and 357
selected_libs(q) ==
    {q.library_filters[i] : i \in {j \in 1..Len(q.library_filters) :
        Strip(q.library_filters[j]) # <<>> /\ q.library_filters[j] # S_All}}

\* library_web_gui.py line 349 and 358
selected_types(q) == {q.type_filters[i] : i \in 1..Len(q.type_filters)}

\* library_web_gui.py line 350-352
NormSearchMode(q) ==
    LET m == Lower(IF q.search_mode = <<>> THEN S_any ELSE q.search_mode)
    IN IF m \in {S_any, S_all, S_exact, S_fuzzy} THEN m ELSE S_any

\* library_web_gui.py line 365-376; a date object is always true
start_date_obj(q) ==
    IF q.start_date # <<>> THEN StrptimeIso(q.start_date) ELSE NoDate
end_date_obj(q) ==
    IF q.end_date # <<>> THEN StrptimeIso(q.end_date) ELSE NoDate
target_date(q) ==
    IF q.start_date # <<>> \/ q.end_date # <<>> THEN NoDate
    ELSE IF q.date_filter # <<>> THEN StrptimeIso(q.date_filter)
    ELSE NoDate

\* library_web_gui.py line 391-399
field_alias(sf) ==
    CASE sf = S_title -> "Title"
      [] sf = S_description -> "Description"
      [] sf = S_location -> "Location"
      [] sf \in {S_age, S_age_group, S_type} -> "Age_Group"
      [] sf = S_library -> "Library"
      [] OTHER -> "None"

\* library_web_gui.py line 400-405
RECURSIVE AliasedFields(_)
AliasedFields(fields) ==
    IF fields = <<>> THEN <<>>
    ELSE LET key == field_alias(Lower(Head(fields)))
         IN IF key # "None" THEN <<key>> \o AliasedFields(Tail(fields))
            ELSE AliasedFields(Tail(fields))
search_fields_list(q) ==
    IF AliasedFields(q.search_fields) = <<>>
    THEN <<"Title", "Description", "Location">>
    ELSE AliasedFields(q.search_fields)

\* library_web_gui.py line 413-416
get_event_types(ev) ==
    LET raw == ev.Age_Group
        pieces == Split(raw, ",")
        parts == {Strip(pieces[i]) : i \in 1..Len(pieces)} \ {<<>>}
    IN IF parts # {} THEN parts ELSE IF raw # <<>> THEN {raw} ELSE {}

\* mutation: the mode all accepts a record that holds one of the tokens
matches_search_allAsAny(ev, q) ==
    IF q.search_term = <<>> THEN TRUE
    ELSE LET fields == search_fields_list(q)
             values_list == [i \in 1..Len(fields) |-> Lower(ev[fields[i]])]
             combined == JoinSpace(values_list)
             raw == Strip(Lower(q.search_term))
             search_tokens == SearchTokens(raw)
             mode == NormSearchMode(q)
         IN IF raw = <<>> THEN TRUE
            ELSE IF mode = S_exact THEN Contains(raw, combined)
            ELSE IF Contains(raw, combined) THEN TRUE
            ELSE IF search_tokens = <<>> THEN TRUE
            ELSE IF mode = S_all
                 THEN \E i \in 1..Len(search_tokens) : Contains(search_tokens[i], combined)
                 ELSE \E i \in 1..Len(search_tokens) : Contains(search_tokens[i], combined)

\* library_web_gui.py line 418-446, for the modes any, all and exact (the
\* requests of the model never ask for the mode fuzzy of line 432-438)
matches_search(ev, q) ==
    IF q.search_term = <<>> THEN TRUE
    ELSE LET fields == search_fields_list(q)
             values_list == [i \in 1..Len(fields) |-> Lower(ev[fields[i]])]
             combined == JoinSpace(values_list)
             raw == Strip(Lower(q.search_term))
             search_tokens == SearchTokens(raw)
             mode == NormSearchMode(q)
         IN IF raw = <<>> THEN TRUE
            ELSE IF mode = S_exact THEN Contains(raw, combined)
            ELSE IF Contains(raw, combined) THEN TRUE
            ELSE IF search_tokens = <<>> THEN TRUE
            ELSE IF mode = S_all
                 THEN \A i \in 1..Len(search_tokens) : Contains(search_tokens[i], combined)
                 ELSE \E i \in 1..Len(search_tokens) : Contains(search_tokens[i], combined)

\* mutation: a record dated on the end bound is rejected
matches_date_exclusiveEnd(ev, q) ==
    IF target_date(q).ok
    THEN parse_event_date(ev.Date) = target_date(q)
    ELSE IF start_date_obj(q).ok \/ end_date_obj(q).ok
    THEN LET ev_date == parse_event_date(ev.Date)
         IN /\ ev_date.ok
            /\ ~(start_date_obj(q).ok /\ Ordinal(ev_date.date) < Ordinal(start_date_obj(q).date))
            /\ ~(end_date_obj(q).ok /\ Ordinal(ev_date.date) >= Ordinal(end_date_obj(q).date))
    ELSE TRUE

\* library_web_gui.py line 448-462
matches_date(ev, q) ==
    IF target_date(q).ok
    THEN parse_event_date(ev.Date) = target_date(q)
    ELSE IF start_date_obj(q).ok \/ end_date_obj(q).ok
    THEN LET ev_date == parse_event_date(ev.Date)
         IN /\ ev_date.ok
            /\ ~(start_date_obj(q).ok /\ Ordinal(ev_date.date) < Ordinal(start_date_obj(q).date))
            /\ ~(end_date_obj(q).ok /\ Ordinal(ev_date.date) > Ordinal(end_date_obj(q).date))
    ELSE TRUE

\* library_web_gui.py line 409-411
user_coords(q) ==
    IF q.user_address # <<>> THEN geocode_address(q.user_address, q.nominatim)
    ELSE NoCoord

\* library_web_gui.py line 468-482: the event passes the filters that come
\* before the distance
PassesCriteria(ev, q) ==
    /\ ~(selected_libs(q) # {} /\ ev.Library \notin selected_libs(q))
    /\ ~(selected_types(q) # {} /\ get_event_types(ev) \cap selected_types(q) = {})
    /\ matches_search(ev, q)
    /\ matches_date(ev, q)

\* library_web_gui.py line 485-495: the event dict after the loop body
WithDistance(ev, q) ==
    IF /\ PassesCriteria(ev, q)
       /\ user_coords(q).ok
       /\ get_library_coordinates(ev.Library).ok
    THEN [ev EXCEPT !._distance =
             Round1(haversine_distance(user_coords(q), get_library_coordinates(ev.Library)))]
    ELSE ev

\* mutation: an event without coordinates is kept whatever max_distance is
Appended_keepsUnlocated(ev, q) ==
    /\ PassesCriteria(ev, q)
    /\ \/ ~user_coords(q).ok
       \/ IF get_library_coordinates(ev.Library).ok
          THEN ~(/\ q.max_distance # Absent
                 /\ haversine_distance(user_coords(q), get_library_coordinates(ev.Library))
                        > q.max_distance)
          ELSE TRUE

\* library_web_gui.py line 484-504: the event is appended to filtered_events
Appended(ev, q) ==
    /\ PassesCriteria(ev, q)
    /\ \/ ~user_coords(q).ok
       \/ IF get_library_coordinates(ev.Library).ok
          THEN ~(/\ q.max_distance # Absent
                 /\ haversine_distance(user_coords(q), get_library_coordinates(ev.Library))
                        > q.max_distance)
          ELSE q.max_distance = Absent

\* float('inf'), the sort key of an event without '_distance'
Infinity == 1000000

\* mutation: an event without '_distance' gets the smallest key
DistanceKey_absentFirst(e) == IF e._distance = Absent THEN 0 ELSE e._distance

\* library_web_gui.py line 508: the sort key
DistanceKey(e) == IF e._distance = Absent THEN Infinity ELSE e._distance

\* list.sort(key=...) is stable: an event goes after the events whose key is
\* not greater
RECURSIVE InsertByDistance(_, _)
InsertByDistance(sorted, e) ==
    IF sorted = <<>> THEN <<e>>
    ELSE IF DistanceKey(e) < DistanceKey(Head(sorted))
         THEN <<e>> \o sorted
         ELSE <<Head(sorted)>> \o InsertByDistance(Tail(sorted), e)

RECURSIVE SortByDistance(_)
SortByDistance(events) ==
    IF events = <<>> THEN <<>>
    ELSE InsertByDistance(SortByDistance(SubSeq(events, 1, Len(events) - 1)),
                          events[Len(events)])

\* library_web_gui.py line 334-510: filter_events; `data` is events_data
\* after the call (the loop writes '_distance' into the dicts of the
\* snapshot), `result` the list returned
filter_events(events, q) ==
    LET data == [i \in 1..Len(events) |-> WithDistance(events[i], q)]
        kept == {i \in 1..Len(events) : Appended(events[i], q)}
        Pick[i \in 0..Len(events)] ==
            IF i = 0 THEN <<>>
            ELSE IF i \in kept THEN Append(Pick[i - 1], data[i])
            ELSE Pick[i - 1]
        filtered == Pick[Len(events)]
    IN [data |-> data,
        result |-> IF user_coords(q).ok THEN SortByDistance(filtered) ELSE filtered]

\* the default values of the parameters, line 335-344
DefaultRequest ==
    Request(<<>>, <<>>, <<>>, <<>>, <<>>, <<>>, <<>>, S_any, <<>>, Absent, NoCoord)

FilterIdle ==
    /\ events_data = <<>>
    /\ request = DefaultRequest
    /\ filtered_events = <<>>
    /\ f_pc = "idle"

\* the snapshot holds up to MaxRows of the given rows, no query is open
FilterInit(rows) ==
    /\ events_data \in SeqsUpTo(rows, MaxRows)
    /\ request = DefaultRequest
    /\ filtered_events = <<>>
    /\ f_pc = "idle"

\* the snapshot holds up to MaxRows of the given rows and a request handler
\* is about to call filter_events with one of the given queries
FilterInitWith(rows, queries) ==
    /\ events_data \in SeqsUpTo(rows, MaxRows)
    /\ request \in queries
    /\ filtered_events = <<>>
    /\ f_pc = "pending"

\* a request handler (line 855, 895, 948) is about to call filter_events
\* with the criteria of its query string
F_Request(queries) ==
    /\ f_pc \in {"idle", "answered"}
    /\ request' \in queries
    /\ filtered_events' = <<>>
    /\ f_pc' = "pending"
    /\ UNCHANGED events_data

\* filter_events runs and returns
F_Filter ==
    /\ f_pc = "pending"
    /\ events_data' = filter_events(events_data, request).data
    /\ filtered_events' = filter_events(events_data, request).result
    /\ f_pc' = "answered"
    /\ UNCHANGED request

\* filter_events by distance: rows of four sources, one of them (Chicago Park
\* District) without an entry in library_coords
D12 == MkDate(2025, 12, 12)

GeoRows ==
    {Event(lib, <<"a">>, StrftimeLong(D10), ClockText(10, 0, "AM", TRUE), <<>>, <<>>, <<>>) :
        lib \in {S_Skokie, S_Lincolnwood, S_Evanston, S_ChicagoParkDistrict}}

\* an address that is no ZIP code of the table and no Chicago pattern
S_elsewhere == <<"x">>

\* 2.36 miles lies between the distances of Lincolnwood and Evanston from
\* 60077
GeoDistances == {Absent, 0, 2360, 5000}

GeoQueries ==
    {Request(<<>>, <<>>, <<>>, <<>>, <<>>, <<>>, <<>>, S_any, addr, md, NoCoord) :
        addr \in {<<>>, S_60077, S_60201, S_elsewhere}, md \in GeoDistances}
    \cup
    {Request(<<>>, <<>>, <<>>, <<>>, <<>>, <<>>, <<>>, S_any, S_elsewhere, md,
             Coord(420406, -877334)) : md \in GeoDistances}

\* filter_events by date: rows of two sources whose Date is the text main()
\* writes ("Wednesday, December 10, 2025"), an ISO date, the long form, a
\* text parse_event_date does not read ("Dec 11, 2025"), or empty
DateRows ==
    {Event(lib, <<"a">>, date, ClockText(10, 0, "AM", TRUE), <<>>, <<>>, <<>>) :
        lib \in {S_Skokie, S_Evanston},
        date \in {StrftimeLong(D10), IsoDateText(D11), LongDateText(D12),
                  AbbrDateText(D11), <<>>}}

\* the bounds of a query: absent, a day, or a text strptime rejects
\* ("2025-02-30")
DateBounds ==
    {<<>>, IsoDateText(D10), IsoDateText(D11), IsoDateText(D12),
     IsoDateText(MkDate(2025, 2, 30))}

DateQueries ==
    {Request(libs, <<>>, <<>>, start, end, day, <<>>, S_any, <<>>, Absent, NoCoord) :
        libs \in {<<>>, <<S_Skokie>>}, start \in DateBounds, end \in DateBounds,
        day \in {<<>>, IsoDateText(D11)}}

\* filter_events by search term: rows with a title and a description out of
\* a few short texts
SearchRows ==
    {Event(S_Skokie, title, StrftimeLong(D10), ClockText(10, 0, "AM", TRUE), <<>>, desc, <<>>) :
        title \in {<<"A", "b">>, <<"b">>},
        desc \in {<<>>, <<"a">>}}

\* every text of up to MaxTerm characters out of a, B, space and the double
\* quote
SearchTerms == SeqsUpTo({"a", "B", " ", "\""}, MaxTerm)

SearchQueries ==
    {Request(<<>>, <<>>, term, <<>>, <<>>, <<>>, fields, mode, <<>>, Absent, NoCoord) :
        term \in SearchTerms,
        fields \in {<<>>, <<S_title>>},
        mode \in {S_any, S_all, S_exact}}

----------------------------------------------------------------------------
(* The calendar exports: generate_ics_file and events_to_ics *)

\* the longest list of records handed to an export
MaxIcs == 2

S_bar == <<"|">>

\* a record with the columns the exports read
Row(lib, title, date, time, location, desc, link, age) ==
    [Library |-> lib, Title |-> title, Date |-> date, Time |-> time,
     Location |-> location, Description |-> desc, Link |-> link,
     Age_Group |-> age]

\* library_all_events.py line 1720-1762: main() rewrites the date text and
\* adds the two helper columns before the exports see the record
WithHelpers(e) ==
    LET dt == ParseEventDate(e.Date)
    IN [Library |-> e.Library, Title |-> e.Title,
        Date |-> IF dt.ok THEN StrftimeLong(dt.date) ELSE e.Date,
        Time |-> e.Time, Location |-> e.Location,
        Description |-> e.Description, Link |-> e.Link,
        Age_Group |-> e.Age_Group,
        datetime_obj |-> dt,
        time_obj |-> parse_time_to_sortable(e.Time)]

\* library_all_events.py line 1764-1773: the list main() hands to
\* generate_ics_file holds the records of the window only
HandedToIcs(rows) ==
    FilterWindow([i \in 1..Len(rows) |-> WithHelpers(rows[i])])

\* datetime.combine(date, time), in minutes
Combine(date, time) == Ordinal(date) * 1440 + time

\* timedelta(hours=1)
OneHour == 60

\* line 1559-1569 (and library_web_gui.py line 561-571): the end time read
\* from the second part of a text split at a hyphen or an en dash; with the
\* spaces removed only '%I:%M%p' can match
ParseEndTime(time_str) ==
    IF time_str.k = "range" /\ time_str.sep \in Dashes /\ ClockParses(time_str.end)
    THEN [ok |-> TRUE, time |-> parse_time_to_sortable(time_str.end)]
    ELSE [ok |-> FALSE]

\* hashlib.md5(text).hexdigest() + "@library-scraper"
Md5Uid(text) == [md5 |-> text, domain |-> "library-scraper"]

\* mutation: the description takes part in the identifier
RunUid_withDescription(event) ==
    Md5Uid(<<event.Library \o S_bar \o event.Title \o S_bar,
             event.Date, event.Time, S_bar \o event.Location \o event.Description>>)

\* library_all_events.py line 1577-1584: "|".join of the five columns; the
\* date and the time text stand between the joined strings as they are
RunUid(event) ==
    Md5Uid(<<event.Library \o S_bar \o event.Title \o S_bar,
             event.Date, event.Time, S_bar \o event.Location>>)

\* library_web_gui.py line 594-601
GuiUid(event) ==
    Md5Uid(<<event.Library \o S_bar \o event.Title \o S_bar,
             event.Date, event.Time, S_bar \o event.Location>>)

\* a calendar that was not produced
NoCalendar == [done |-> FALSE, ok |-> FALSE, events |-> <<>>]

\* library_all_events.py line 1550-1575: begin and end of the entry
RunStart(event) == Combine(event.datetime_obj.date, event.time_obj)
RunEnd(event) ==
    IF ParseEndTime(event.Time).ok
    THEN Combine(event.datetime_obj.date, ParseEndTime(event.Time).time)
    ELSE RunStart(event) + OneHour

\* library_all_events.py line 1543-1615: the entries of the calendar, in the
\* order of the list; src is the position of the record in the list.  An
\* exception of the loop body (the ics package refusing the end) skips the
\* record, line 1613-1615
RECURSIVE RunEntriesFrom(_, _, _)
RunEntriesFrom(i, all_evts, raises) ==
    IF i > Len(all_evts) THEN <<>>
    ELSE LET event == all_evts[i]
         IN (IF ~event.datetime_obj.ok THEN <<>>
             ELSE IF raises /\ RunEnd(event) < RunStart(event) THEN <<>>
             ELSE <<[src |-> i,
                     uid |-> RunUid(event),
                     begin |-> RunStart(event),
                     end |-> RunEnd(event),
                     all_day |-> event.time_obj = MinTime]>>)
            \o RunEntriesFrom(i + 1, all_evts, raises)

\* mutation: the calendar keeps every event that is added
EventsAdd_list(cal, entries, by_uid) == cal \o entries

\* line 1611, cal.events.add(e): cal.events is a set, so an event equal to
\* one that is already in it is not added; by_uid says whether the ics
\* package takes events with the same UID for equal
RECURSIVE EventsAdd(_, _, _)
EventsAdd(cal, entries, by_uid) ==
    IF entries = <<>> THEN cal
    ELSE EventsAdd(IF by_uid /\ \E k \in 1..Len(cal) : cal[k].uid = Head(entries).uid
                   THEN cal
                   ELSE Append(cal, Head(entries)),
                   Tail(entries), by_uid)

\* library_all_events.py line 1524-1623; no file for an empty list (main()
\* returns at line 1770-1772 before the call when the window is empty)
generate_ics_file(all_evts, raises, by_uid) ==
    IF all_evts = <<>> THEN [done |-> TRUE, ok |-> FALSE, events |-> <<>>]
    ELSE [done |-> TRUE, ok |-> TRUE,
          events |-> EventsAdd(<<>>, RunEntriesFrom(1, all_evts, raises), by_uid)]

\* library_web_gui.py line 555-571
GuiStart(event) ==
    Combine(parse_event_date(event.Date).date, parse_time_to_sortable(event.Time))
GuiEnd(event) ==
    IF ParseEndTime(event.Time).ok
    THEN Combine(parse_event_date(event.Date).date, ParseEndTime(event.Time).time)
    ELSE GuiStart(event) + OneHour

\* library_web_gui.py line 549-604
RECURSIVE GuiEntriesFrom(_, _)
GuiEntriesFrom(i, events) ==
    IF i > Len(events) THEN <<>>
    ELSE LET event == events[i]
         IN (IF ~parse_event_date(event.Date).ok THEN <<>>
             ELSE <<[src |-> i,
                     uid |-> GuiUid(event),
                     begin |-> GuiStart(event),
                     end |-> GuiEnd(event),
                     all_day |-> parse_time_to_sortable(event.Time) = MinTime]>>)
            \o GuiEntriesFrom(i + 1, events)

\* library_web_gui.py line 575-577: no handler around e.end = end_dt, so a
\* refusal of the ics package ends the export with the exception
GuiRaises(events, raises) ==
    /\ raises
    /\ \E i \in 1..Len(events) :
          /\ parse_event_date(events[i].Date).ok
          /\ GuiEnd(events[i]) < GuiStart(events[i])

\* library_web_gui.py line 547-609
events_to_ics(events, raises, by_uid) ==
    IF GuiRaises(events, raises)
    THEN [done |-> TRUE, ok |-> FALSE, events |-> <<>>]
    ELSE [done |-> TRUE, ok |-> TRUE,
          events |-> EventsAdd(<<>>, GuiEntriesFrom(1, events), by_uid)]

IcsIdle ==
    /\ ics_input = <<>>
    /\ end_before_begin_raises = FALSE
    /\ events_equal_by_uid = FALSE
    /\ run_calendar = NoCalendar
    /\ gui_calendar = NoCalendar

\* the records are drawn from lists; whether the installed ics package
\* refuses an end that lies before the begin, and whether it compares events
\* by their UID, is not fixed by the repository
IcsInitFrom(lists) ==
    /\ ics_input \in lists \ {<<>>}
    /\ end_before_begin_raises \in BOOLEAN
    /\ events_equal_by_uid \in BOOLEAN
    /\ run_calendar = NoCalendar
    /\ gui_calendar = NoCalendar

IcsInit(rows, n) == IcsInitFrom(SeqsUpTo(rows, n))

\* library_all_events.py line 1698-1705: the lists of a run have passed the
\* de-duplication before the exports see them
DedupedLists(rows, n) == {RemoveDuplicates(l) : l \in SeqsUpTo(rows, n)}

\* library_all_events.py line 1779: main() exports the records of the run
X_GenerateIcs ==
    /\ ~run_calendar.done
    /\ run_calendar' = generate_ics_file(HandedToIcs(ics_input), end_before_begin_raises, events_equal_by_uid)
    /\ UNCHANGED <<ics_input, end_before_begin_raises, events_equal_by_uid, gui_calendar>>

\* library_web_gui.py line 916: /api/ics exports the records of the snapshot
X_EventsToIcs ==
    /\ ~gui_calendar.done
    /\ gui_calendar' = events_to_ics(ics_input, end_before_begin_raises, events_equal_by_uid)
    /\ UNCHANGED <<ics_input, end_before_begin_raises, events_equal_by_uid, run_calendar>>

\* the records of the identifier family: they differ in every column
S_a == <<"a">>
S_b == <<"b">>
ExtraColumns == {<<<<>>, <<>>, <<>>>>, <<S_a, S_b, S_a>>}
UidRows ==
    {Row(S_Skokie, title, date, ClockText(10, 0, "AM", TRUE), location,
         x[1], x[2], x[3]) :
        title \in {S_a, S_b}, date \in {StrftimeLong(D10), NotFoundText},
        location \in {<<>>, S_a}, x \in ExtraColumns}

\* the time texts of the time family
Clocks ==
    {ClockText(10, 0, "AM", TRUE), ClockText(11, 0, "PM", TRUE),
     ClockText(1, 0, "AM", TRUE), ClockText(12, 0, "AM", TRUE),
     ClockText(11, 0, "AM", FALSE)}
TimeTexts ==
    Clocks \cup {AllDayText, OtherTimeText("Not found")}
        \cup {RangeText(a, sep, b) :
                a \in Clocks, sep \in Dashes \cup {"to"}, b \in Clocks}
TimeRows ==
    {Row(S_Skokie, S_a, date, time, <<>>, <<>>, <<>>, <<>>) :
        date \in {StrftimeLong(D10), NotFoundText}, time \in TimeTexts}

\* the records of the run family: one source, title and time, the day in two
\* of the forms the adapters emit, another day, two locations
RunRows ==
    {Row(S_Skokie, S_a, date, ClockText(10, 0, "AM", TRUE), location,
         <<>>, <<>>, <<>>) :
        date \in {LongDateText(D10), AbbrDateText(D10), LongDateText(D11)},
        location \in {<<>>, S_a}}

----------------------------------------------------------------------------
(* compute_date_window (library_all_events.py 1625-1665, library.py 1105-1158) *)

\* a text of the command line or of the environment that is handed to int():
\* digits with an optional sign ("7", "-3"), the empty text, or anything else
IntText(n) == [k |-> "int", n |-> n]
EmptyText == [k |-> "empty", n |-> 0]
JunkText == [k |-> "junk", n |-> 0]

\* a flag of the command line or a variable of the environment: absent
\* (None), or present with its text
Unset(none) == [given |-> FALSE, text |-> none]
Given(text) == [given |-> TRUE, text |-> text]

\* a field of the argparse namespace of an int flag: None or the integer
NoInt == [given |-> FALSE, n |-> 0]
SomeInt(n) == [given |-> TRUE, n |-> n]

\* int(text) of argparse's type=int and of line 1656 succeeds
IntParses(t) == t.k = "int"
\* str.isdigit(), line 1643: digits only, so no sign and not empty
IsDigit(t) == t.k = "int" /\ t.n >= 0

\* argparse rejects the command line: an int flag whose text int() refuses
\* makes parser.error() raise SystemExit
ArgparseExits(cli) ==
    \/ (cli.days.given /\ ~IntParses(cli.days.text))
    \/ (cli.start_offset_days.given /\ ~IntParses(cli.start_offset_days.text))

IntField(flag) == IF flag.given THEN SomeInt(flag.text.n) ELSE NoInt

\* line 1631-1635: parse_known_args(cli_args), and parse_args([]) when it
\* tried to exit
parse_known_args(cli) ==
    IF ArgparseExits(cli)
    THEN [start_date |-> Unset(<<>>), days |-> NoInt, start_offset_days |-> NoInt]
    ELSE [start_date |-> cli.start_date,
          days |-> IntField(cli.days),
          start_offset_days |-> IntField(cli.start_offset_days)]

\* the truth value Python gives to None and to a string
Truthy(opt) == opt.given /\ opt.text # <<>>
TruthyInt(opt) == opt.given /\ opt.text.k # "empty"

\* line 1642-1644
DetermineDays(args, env) ==
    IF args.days.given THEN args.days.n
    ELSE IF TruthyInt(env.DAYS_TO_FETCH) /\ IsDigit(env.DAYS_TO_FETCH.text)
         THEN env.DAYS_TO_FETCH.text.n
         ELSE DEFAULT_DAYS_TO_FETCH

\* line 1647, the mirror image: the environment asked first
RawStart_envFirst(args, env) ==
    IF Truthy(env.START_DATE) THEN env.START_DATE ELSE args.start_date

\* line 1647: raw_start = args.start_date or env_start_date
RawStart(args, env) ==
    IF Truthy(args.start_date) THEN args.start_date ELSE env.START_DATE

\* line 1657-1661: the offset from today; a ValueError of int() gives 0
DetermineOffset(args, env) ==
    IF args.start_offset_days.given THEN args.start_offset_days.n
    ELSE IF TruthyInt(env.START_OFFSET_DAYS)
         THEN (IF IntParses(env.START_OFFSET_DAYS.text)
               THEN env.START_OFFSET_DAYS.text.n ELSE 0)
         ELSE 0

\* date.fromordinal(), within 2025 and 2026
FromOrdinal(n) ==
    CHOOSE dt \in {MkDate(y, m, d) : y \in 2025..2026, m \in 1..12, d \in 1..31} :
        ValidDate(dt.y, dt.m, dt.d) /\ Ordinal(dt) = n

\* line 1625-1665: (start_date_str, days)
compute_date_window(cli, env, now) ==
    LET args == parse_known_args(cli)
        raw_start == RawStart(args, env)
        start ==
            IF Truthy(raw_start)
            THEN (IF StrptimeIso(raw_start.text).ok
                  THEN StrptimeIso(raw_start.text).date
                  ELSE now)
            ELSE FromOrdinal(Ordinal(now) + DetermineOffset(args, env))
    IN [start_date_str |-> start, days |-> DetermineDays(args, env)]

\* the command lines and environments explored
CliStartDates ==
    {Unset(<<>>), Given(<<>>), Given(IsoDateText(D10)), Given(IsoDateText(D11)),
     Given(IsoDateText(MkDate(2025, 2, 30)))}
EnvStartDates ==
    {Unset(<<>>), Given(<<>>), Given(IsoDateText(D11)), Given(IsoDateText(D12)),
     Given(NotFoundText)}
CliDays == {Unset(EmptyText), Given(IntText(7)), Given(IntText(0)), Given(JunkText)}
EnvDays ==
    {Unset(EmptyText), Given(IntText(14)), Given(IntText(-3)), Given(JunkText),
     Given(EmptyText)}
CliOffsets == {Unset(EmptyText), Given(IntText(2)), Given(IntText(0)), Given(JunkText)}
EnvOffsets == {Unset(EmptyText), Given(IntText(3)), Given(IntText(-1)), Given(JunkText)}
Todays == {MkDate(2025, 12, 1), MkDate(2025, 12, 31)}

NoWindow == [start_date_str |-> MkDate(2025, 1, 1), days |-> 0]

DwIdle ==
    /\ cli_args = [start_date |-> Unset(<<>>), days |-> Unset(EmptyText),
                   start_offset_days |-> Unset(EmptyText)]
    /\ environ = [START_DATE |-> Unset(<<>>), DAYS_TO_FETCH |-> Unset(EmptyText),
                  START_OFFSET_DAYS |-> Unset(EmptyText)]
    /\ today = MkDate(2025, 12, 1)
    /\ window = NoWindow
    /\ dw_pc = "idle"

DwInit ==
    /\ cli_args \in [start_date : CliStartDates, days : CliDays,
                     start_offset_days : CliOffsets]
    /\ environ \in [START_DATE : EnvStartDates, DAYS_TO_FETCH : EnvDays,
                    START_OFFSET_DAYS : EnvOffsets]
    /\ today \in Todays
    /\ window = NoWindow
    /\ dw_pc = "start"

\* main() line 1670: START_DATE, DAYS_TO_FETCH = compute_date_window()
DW_Compute ==
    /\ dw_pc = "start"
    /\ window' = compute_date_window(cli_args, environ, today)
    /\ dw_pc' = "returned"
    /\ UNCHANGED <<cli_args, environ, today>>

----------------------------------------------------------------------------
(* The pagination loops of the adapters *)

\* fetch_bibliocommons_events line 554 and fetch_glencoe_events line 730
BibliocommonsMaxPages == 5
GlencoeMaxPages == 5
\* fetch_chicago_parks_events line 1278
ChicagoParksMaxPages == 30
\* line 1307: the 212 events the site announces
ChicagoParksTotal == 212

\* fetch_fpdcc_events: the page numbers told apart; MaxFpdccPage + 1 stands
\* for every larger page number and every larger page count
MaxFpdccPage == 3
ManyPages == MaxFpdccPage + 1

\* the page requests counted; one more than the largest max_pages
MaxCounted == ChicagoParksMaxPages + 1

PageAdapters == {"bibliocommons", "glencoe", "chicago_parks", "fpdcc"}

CountRequest(n) == Min(n + 1, MaxCounted)

PageIdle ==
    /\ pg_adapter = "none"
    /\ page = 1
    /\ total_pages = 1
    /\ stop_fetching = FALSE
    /\ found = 0
    /\ pages_requested = 0
    /\ pg_pc = "idle"

\* the state before the first page: current_page = 1 (line 554), page = 1
\* (line 731, 1400), total_pages = 1 (line 1402), all_events = []
PageInit ==
    /\ pg_adapter \in PageAdapters
    /\ page = 1
    /\ total_pages = 1
    /\ stop_fetching = FALSE
    /\ found = 0
    /\ pages_requested = 0
    /\ pg_pc = "loop"

\* the condition of the adapter's loop: line 555, 739, 1280, 1404
LoopCondition(adapter, pg, total, stop) ==
    CASE adapter = "bibliocommons" -> pg <= BibliocommonsMaxPages
      [] adapter = "glencoe" -> pg <= GlencoeMaxPages /\ ~stop
      [] adapter = "chicago_parks" -> pg <= ChicagoParksMaxPages
      [] adapter = "fpdcc" -> pg <= total

AfterTurn(adapter, pg, total, stop) ==
    IF LoopCondition(adapter, pg, total, stop) THEN "loop" ELSE "done"

\* line 563, 751, 1282, 1406: the loop asks the server for its page and
\* waits for the answer
PG_Request ==
    /\ pg_pc = "loop"
    /\ LoopCondition(pg_adapter, page, total_pages, stop_fetching)
    /\ pages_requested' = CountRequest(pages_requested)
    /\ pg_pc' = "awaiting"
    /\ UNCHANGED <<pg_adapter, page, total_pages, stop_fetching, found>>

\* what the server can answer to a Bibliocommons page: an error that
\* survives the retries, no markdown or "No events found", markdown without
\* a parsable event, fewer than 20 events, or 20 and more
BibliocommonsAnswers == {"error", "empty", "unparsed", "short", "full"}

\* line 563-587: the rest of one turn of `while current_page <= max_pages`
BC_Answer ==
    /\ pg_pc = "awaiting"
    /\ pg_adapter = "bibliocommons"
    /\ \E answer \in BibliocommonsAnswers :
        IF answer = "full"
        THEN /\ page' = page + 1
             /\ pg_pc' = AfterTurn(pg_adapter, page + 1, total_pages, stop_fetching)
        ELSE /\ page' = page
             /\ pg_pc' = "done"
    /\ UNCHANGED <<pg_adapter, total_pages, stop_fetching, found, pages_requested>>

\* line 751-850: the rest of one turn of
\* `while page <= max_pages and not stop_fetching`.  beyond: an event of the
\* page lies more than 30 days after the window; more: page * perpage is
\* below the total_results the server reports
G_Answer ==
    /\ pg_pc = "awaiting"
    /\ pg_adapter = "glencoe"
    /\ \E answer \in {"error", "empty", "results"}, beyond \in BOOLEAN, more \in BOOLEAN :
        IF answer = "results"
        THEN /\ stop_fetching' = beyond
             /\ IF more
                THEN /\ page' = page + 1
                     /\ pg_pc' = AfterTurn(pg_adapter, page + 1, total_pages, beyond)
                ELSE /\ page' = page
                     /\ pg_pc' = "done"
        ELSE /\ UNCHANGED <<stop_fetching, page>>
             /\ pg_pc' = "done"
    /\ UNCHANGED <<pg_adapter, total_pages, found, pages_requested>>

\* the numbers of events a Chicago Parks page can carry
ChicagoParksPageSizes == {1, 8, 100}

\* line 1282-1323: the rest of one turn of
\* `for page in range(1, max_pages + 1)`.  A rate limit that survives the
\* retries waits and goes on with the next page
CP_Answer ==
    /\ pg_pc = "awaiting"
    /\ pg_adapter = "chicago_parks"
    /\ \E answer \in {"error", "empty", "noevents", "events", "ratelimit"},
          n \in ChicagoParksPageSizes :
        /\ found' = IF answer = "events" THEN Min(found + n, ChicagoParksTotal) ELSE found
        /\ IF \/ answer = "ratelimit"
              \/ (answer = "events" /\ found + n < ChicagoParksTotal)
           THEN /\ page' = page + 1
                /\ pg_pc' = AfterTurn(pg_adapter, page + 1, total_pages, stop_fetching)
           ELSE /\ page' = page
                /\ pg_pc' = "done"
    /\ UNCHANGED <<pg_adapter, total_pages, stop_fetching, pages_requested>>

\* line 1406-1446: the rest of one turn of `while page <= total_pages`.
\* reported is the total_pages of the answer, 0 when the answer carries
\* none; nonempty tells whether the answer carries events
FP_Answer ==
    /\ pg_pc = "awaiting"
    /\ pg_adapter = "fpdcc"
    /\ \E answer \in {"error", "data"}, nonempty \in BOOLEAN, reported \in 0..ManyPages :
        IF answer = "data"
        THEN /\ total_pages' = IF reported # 0 THEN reported ELSE total_pages
             /\ IF nonempty
                THEN /\ page' = Min(page + 1, ManyPages)
                     /\ pg_pc' = AfterTurn(pg_adapter, Min(page + 1, ManyPages),
                                           total_pages', stop_fetching)
                ELSE /\ page' = page
                     /\ pg_pc' = "done"
        ELSE /\ UNCHANGED <<total_pages, page>>
             /\ pg_pc' = "done"
    /\ UNCHANGED <<pg_adapter, stop_fetching, found, pages_requested>>

----------------------------------------------------------------------------
(* The title of a record, adapter by adapter *)

\* the longest answer of a server explored, in items
MaxItems == 2

\* the title an item can carry: none, or a text that is empty, blank, or a
\* word with or without blanks around it
NoTitle == [given |-> FALSE, text |-> <<>>]
TitleTexts == {<<>>, <<" ">>, <<"a">>, <<" ", "a", " ">>}
RawTitles == {NoTitle} \cup {[given |-> TRUE, text |-> t] : t \in TitleTexts}

\* line 159-184: clean_text of a title; a value that is no string gives "",
\* a text has its blanks at both ends removed (the texts explored hold no
\* markup and no run of blanks between words)
clean_text(raw) == IF raw.given THEN Strip(raw.text) ELSE <<>>

TitleAdapters ==
    {"lincolnwood", "mgpl", "bibliocommons", "libnet", "glencoe",
     "skokie_parks", "skokie", "chicago_parks", "fpdcc"}

\* the title of the record an adapter builds from an item, and whether it
\* builds one.  The items explored carry every other field the adapter needs
Kept(title) == [emit |-> TRUE, Title |-> title]
Dropped == [emit |-> FALSE, Title |-> <<>>]

\* line 322-325, 638-641, 773-775: clean_text, then `if not title: continue`
title_cleaned_and_checked(raw) ==
    IF clean_text(raw) = <<>> THEN Dropped ELSE Kept(clean_text(raw))

\* line 423-433: the text between the brackets, stripped, then checked
title_mgpl(raw) ==
    IF ~raw.given THEN Dropped
    ELSE IF Strip(raw.text) = <<>> THEN Dropped ELSE Kept(Strip(raw.text))

\* line 513-515 and 544: the group (.*?) of '### \[(.*?)\]\((.*?)\)' as it is
title_bibliocommons(raw) ==
    IF ~raw.given THEN Dropped ELSE Kept(raw.text)

\* line 885-893 and 938: the text before the word Date, stripped
title_skokie_parks(raw) ==
    IF ~raw.given THEN Dropped ELSE Kept(Strip(raw.text))

\* line 1024-1028 (Skokie) and 1160-1164 (Chicago Parks): the group
\* ([^\]]+) needs one character, then .strip()
title_bracket_stripped(raw) ==
    IF ~raw.given \/ raw.text = <<>> THEN Dropped ELSE Kept(Strip(raw.text))

\* line 1414: clean_text(item.get("title")) or "Untitled Event"
title_fpdcc(raw) ==
    IF clean_text(raw) = <<>> THEN Kept(<<"Untitled Event">>) ELSE Kept(clean_text(raw))

adapter_title(adapter, raw) ==
    CASE adapter \in {"lincolnwood", "libnet", "glencoe"} -> title_cleaned_and_checked(raw)
      [] adapter = "mgpl" -> title_mgpl(raw)
      [] adapter = "bibliocommons" -> title_bibliocommons(raw)
      [] adapter = "skokie_parks" -> title_skokie_parks(raw)
      [] adapter \in {"skokie", "chicago_parks"} -> title_bracket_stripped(raw)
      [] adapter = "fpdcc" -> title_fpdcc(raw)

AdaptIdle ==
    /\ ad_adapter = "none"
    /\ ad_items = <<>>
    /\ emitted = <<>>
    /\ ad_next = 1

AdaptInit ==
    /\ ad_adapter \in TitleAdapters
    /\ ad_items \in SeqsUpTo(RawTitles, MaxItems)
    /\ emitted = <<>>
    /\ ad_next = 1

\* one turn of the adapter's loop over the items of the answer
A_Item ==
    /\ ad_adapter \in TitleAdapters
    /\ ad_next <= Len(ad_items)
    /\ emitted' = IF adapter_title(ad_adapter, ad_items[ad_next]).emit
                  THEN Append(emitted,
                              [Library |-> ad_adapter,
                               Title |-> adapter_title(ad_adapter, ad_items[ad_next]).Title])
                  ELSE emitted
    /\ ad_next' = ad_next + 1
    /\ UNCHANGED <<ad_adapter, ad_items>>

----------------------------------------------------------------------------
(* Specifications *)

InitSession == SessInit /\ RetryIdle /\ PipeIdle /\ SemIdle /\ RefreshIdle /\ FilterIdle /\ IcsIdle /\ DwIdle /\ PageIdle /\ AdaptIdle
NextSession ==
    \/ T_Start /\ UNCHANGED <<retryVars, pipeVars, semVars, refreshVars, filterVars, icsVars, dwVars, pageVars, adaptVars>>
    \/ T_Finish /\ UNCHANGED <<retryVars, pipeVars, semVars, refreshVars, filterVars, icsVars, dwVars, pageVars, adaptVars>>
    \/ M_WaitCancelled /\ UNCHANGED <<retryVars, pipeVars, semVars, refreshVars, filterVars, icsVars, dwVars, pageVars, adaptVars>>
    \/ T_Cancelled /\ UNCHANGED <<retryVars, pipeVars, semVars, refreshVars, filterVars, icsVars, dwVars, pageVars, adaptVars>>
    \/ M_Finally /\ UNCHANGED <<retryVars, pipeVars, semVars, refreshVars, filterVars, icsVars, dwVars, pageVars, adaptVars>>
SpecSession == InitSession /\ [][NextSession]_vars

InitRefresh == RefreshInit /\ RetryIdle /\ PipeIdle /\ RunIdle /\ SemIdle /\ SessIdle /\ FilterIdle /\ IcsIdle /\ DwIdle /\ PageIdle /\ AdaptIdle
NextRefresh ==
    \/ refresh_data_started /\ UNCHANGED <<retryVars, pipeVars, runVars, semVars, sessVars, filterVars, icsVars, dwVars, pageVars, adaptVars>>
    \/ refresh_data_conflict /\ UNCHANGED <<retryVars, pipeVars, runVars, semVars, sessVars, filterVars, icsVars, dwVars, pageVars, adaptVars>>
    \/ BG_Queued /\ UNCHANGED <<retryVars, pipeVars, runVars, semVars, sessVars, filterVars, icsVars, dwVars, pageVars, adaptVars>>
    \/ BG_Spawn /\ UNCHANGED <<retryVars, pipeVars, runVars, semVars, sessVars, filterVars, icsVars, dwVars, pageVars, adaptVars>>
    \/ BG_SpawnFailed /\ UNCHANGED <<retryVars, pipeVars, runVars, semVars, sessVars, filterVars, icsVars, dwVars, pageVars, adaptVars>>
    \/ Proc_Exit /\ UNCHANGED <<retryVars, pipeVars, runVars, semVars, sessVars, filterVars, icsVars, dwVars, pageVars, adaptVars>>
    \/ BG_Returned /\ UNCHANGED <<retryVars, pipeVars, runVars, semVars, sessVars, filterVars, icsVars, dwVars, pageVars, adaptVars>>
    \/ BG_TimeoutExpired /\ UNCHANGED <<retryVars, pipeVars, runVars, semVars, sessVars, filterVars, icsVars, dwVars, pageVars, adaptVars>>
    \/ BG_Finally /\ UNCHANGED <<retryVars, pipeVars, runVars, semVars, sessVars, filterVars, icsVars, dwVars, pageVars, adaptVars>>
\* the background thread and the subprocess keep running once started; the
\* timeout of subprocess.run ends the wait
SpecRefresh ==
    InitRefresh /\ [][NextRefresh]_vars /\ WF_vars(BG_Steps /\ UNCHANGED <<retryVars, pipeVars, runVars, semVars, sessVars, filterVars, icsVars, dwVars, pageVars, adaptVars>>)

InitFilterGeo ==
    FilterInit(GeoRows) /\ RetryIdle /\ PipeIdle /\ RunIdle /\ SemIdle /\ SessIdle /\ RefreshIdle /\ IcsIdle /\ DwIdle /\ PageIdle /\ AdaptIdle
NextFilterGeo ==
    \/ F_Request(GeoQueries) /\ UNCHANGED <<retryVars, pipeVars, runVars, semVars, sessVars, refreshVars, icsVars, dwVars, pageVars, adaptVars>>
    \/ F_Filter /\ UNCHANGED <<retryVars, pipeVars, runVars, semVars, sessVars, refreshVars, icsVars, dwVars, pageVars, adaptVars>>
SpecFilterGeo == InitFilterGeo /\ [][NextFilterGeo]_vars

InitFilterDate ==
    FilterInitWith(DateRows, DateQueries) /\ RetryIdle /\ PipeIdle /\ RunIdle /\ SemIdle /\ SessIdle /\ RefreshIdle /\ IcsIdle /\ DwIdle /\ PageIdle /\ AdaptIdle
NextFilterDate ==
    \/ F_Filter /\ UNCHANGED <<retryVars, pipeVars, runVars, semVars, sessVars, refreshVars, icsVars, dwVars, pageVars, adaptVars>>
SpecFilterDate == InitFilterDate /\ [][NextFilterDate]_vars

InitFilterSearch ==
    FilterInitWith(SearchRows, SearchQueries) /\ RetryIdle /\ PipeIdle /\ RunIdle /\ SemIdle /\ SessIdle /\ RefreshIdle /\ IcsIdle /\ DwIdle /\ PageIdle /\ AdaptIdle
NextFilterSearch ==
    \/ F_Filter /\ UNCHANGED <<retryVars, pipeVars, runVars, semVars, sessVars, refreshVars, icsVars, dwVars, pageVars, adaptVars>>
SpecFilterSearch == InitFilterSearch /\ [][NextFilterSearch]_vars

InitIcsUid ==
    IcsInit(UidRows, MaxIcs) /\ RetryIdle /\ PipeIdle /\ RunIdle /\ SemIdle /\ SessIdle /\ RefreshIdle /\ FilterIdle /\ DwIdle /\ PageIdle /\ AdaptIdle
NextIcsUid ==
    \/ X_GenerateIcs /\ UNCHANGED <<retryVars, pipeVars, runVars, semVars, sessVars, refreshVars, filterVars, dwVars, pageVars, adaptVars>>
    \/ X_EventsToIcs /\ UNCHANGED <<retryVars, pipeVars, runVars, semVars, sessVars, refreshVars, filterVars, dwVars, pageVars, adaptVars>>
SpecIcsUid == InitIcsUid /\ [][NextIcsUid]_vars

InitIcsTime ==
    IcsInit(TimeRows, 1) /\ RetryIdle /\ PipeIdle /\ RunIdle /\ SemIdle /\ SessIdle /\ RefreshIdle /\ FilterIdle /\ DwIdle /\ PageIdle /\ AdaptIdle
NextIcsTime ==
    \/ X_GenerateIcs /\ UNCHANGED <<retryVars, pipeVars, runVars, semVars, sessVars, refreshVars, filterVars, dwVars, pageVars, adaptVars>>
    \/ X_EventsToIcs /\ UNCHANGED <<retryVars, pipeVars, runVars, semVars, sessVars, refreshVars, filterVars, dwVars, pageVars, adaptVars>>
SpecIcsTime == InitIcsTime /\ [][NextIcsTime]_vars

InitIcsRun ==
    IcsInitFrom(DedupedLists(RunRows, MaxIcs)) /\ RetryIdle /\ PipeIdle /\ RunIdle /\ SemIdle /\ SessIdle /\ RefreshIdle /\ FilterIdle /\ DwIdle /\ PageIdle /\ AdaptIdle
NextIcsRun ==
    \/ X_GenerateIcs /\ UNCHANGED <<retryVars, pipeVars, runVars, semVars, sessVars, refreshVars, filterVars, dwVars, pageVars, adaptVars>>
    \/ X_EventsToIcs /\ UNCHANGED <<retryVars, pipeVars, runVars, semVars, sessVars, refreshVars, filterVars, dwVars, pageVars, adaptVars>>
SpecIcsRun == InitIcsRun /\ [][NextIcsRun]_vars

InitSem == SemInit /\ RetryIdle /\ PipeIdle /\ RunIdle /\ SessIdle /\ RefreshIdle /\ FilterIdle /\ IcsIdle /\ DwIdle /\ PageIdle /\ AdaptIdle
NextSem ==
    \/ S_Acquire /\ UNCHANGED <<retryVars, pipeVars, runVars, sessVars, refreshVars, filterVars, icsVars, dwVars, pageVars, adaptVars>>
    \/ S_ReleaseAgain /\ UNCHANGED <<retryVars, pipeVars, runVars, sessVars, refreshVars, filterVars, icsVars, dwVars, pageVars, adaptVars>>
    \/ S_ReleaseDone /\ UNCHANGED <<retryVars, pipeVars, runVars, sessVars, refreshVars, filterVars, icsVars, dwVars, pageVars, adaptVars>>
SpecSem == InitSem /\ [][NextSem]_vars

InitRun == RunInit /\ RetryIdle /\ SemIdle /\ SessIdle /\ RefreshIdle /\ FilterIdle /\ IcsIdle /\ DwIdle /\ PageIdle /\ AdaptIdle
NextRun ==
    \/ M_Launch /\ UNCHANGED <<retryVars, semVars, sessVars, refreshVars, filterVars, icsVars, dwVars, pageVars, adaptVars>>
    \/ A_Return /\ UNCHANGED <<retryVars, semVars, sessVars, refreshVars, filterVars, icsVars, dwVars, pageVars, adaptVars>>
    \/ A_FetchFailed /\ UNCHANGED <<retryVars, semVars, sessVars, refreshVars, filterVars, icsVars, dwVars, pageVars, adaptVars>>
    \/ A_Raise /\ UNCHANGED <<retryVars, semVars, sessVars, refreshVars, filterVars, icsVars, dwVars, pageVars, adaptVars>>
    \/ M_GatherReturns /\ UNCHANGED <<retryVars, semVars, sessVars, refreshVars, filterVars, icsVars, dwVars, pageVars, adaptVars>>
    \/ M_Process /\ UNCHANGED <<retryVars, semVars, sessVars, refreshVars, filterVars, icsVars, dwVars, pageVars, adaptVars>>
    \/ W_Timeout /\ UNCHANGED <<retryVars, semVars, sessVars, refreshVars, filterVars, icsVars, dwVars, pageVars, adaptVars>>
SpecRun == InitRun /\ [][NextRun]_vars

InitPipeline == PipeInit /\ RetryIdle /\ RunIdle /\ SemIdle /\ SessIdle /\ RefreshIdle /\ FilterIdle /\ IcsIdle /\ DwIdle /\ PageIdle /\ AdaptIdle
NextPipeline ==
    \/ P_Dedup /\ UNCHANGED <<retryVars, runVars, semVars, sessVars, refreshVars, filterVars, icsVars, dwVars, pageVars, adaptVars>>
    \/ P_Process /\ UNCHANGED <<retryVars, runVars, semVars, sessVars, refreshVars, filterVars, icsVars, dwVars, pageVars, adaptVars>>
    \/ P_Export /\ UNCHANGED <<retryVars, runVars, semVars, sessVars, refreshVars, filterVars, icsVars, dwVars, pageVars, adaptVars>>
    \/ P_DedupAgain /\ UNCHANGED <<retryVars, runVars, semVars, sessVars, refreshVars, filterVars, icsVars, dwVars, pageVars, adaptVars>>
SpecPipeline == InitPipeline /\ [][NextPipeline]_vars

InitPipelineTimes == PipeTimesInit /\ RetryIdle /\ RunIdle /\ SemIdle /\ SessIdle /\ RefreshIdle /\ FilterIdle /\ IcsIdle /\ DwIdle /\ PageIdle /\ AdaptIdle
SpecPipelineTimes == InitPipelineTimes /\ [][NextPipeline]_vars

InitPipelineDates == PipeDatesInit /\ RetryIdle /\ RunIdle /\ SemIdle /\ SessIdle /\ RefreshIdle /\ FilterIdle /\ IcsIdle /\ DwIdle /\ PageIdle /\ AdaptIdle
SpecPipelineDates == InitPipelineDates /\ [][NextPipeline]_vars

InitDateWindow ==
    DwInit /\ RetryIdle /\ PipeIdle /\ RunIdle /\ SemIdle /\ SessIdle /\ RefreshIdle /\ FilterIdle /\ IcsIdle /\ PageIdle /\ AdaptIdle
NextDateWindow ==
    \/ DW_Compute /\ UNCHANGED <<retryVars, pipeVars, runVars, semVars, sessVars, refreshVars, filterVars, icsVars, pageVars, adaptVars>>
SpecDateWindow == InitDateWindow /\ [][NextDateWindow]_vars

InitPages ==
    PageInit /\ RetryIdle /\ PipeIdle /\ RunIdle /\ SemIdle /\ SessIdle /\ RefreshIdle /\ FilterIdle /\ IcsIdle /\ DwIdle /\ AdaptIdle
NextPages ==
    \/ PG_Request /\ UNCHANGED <<retryVars, pipeVars, runVars, semVars, sessVars, refreshVars, filterVars, icsVars, dwVars, adaptVars>>
    \/ BC_Answer /\ UNCHANGED <<retryVars, pipeVars, runVars, semVars, sessVars, refreshVars, filterVars, icsVars, dwVars, adaptVars>>
    \/ G_Answer /\ UNCHANGED <<retryVars, pipeVars, runVars, semVars, sessVars, refreshVars, filterVars, icsVars, dwVars, adaptVars>>
    \/ CP_Answer /\ UNCHANGED <<retryVars, pipeVars, runVars, semVars, sessVars, refreshVars, filterVars, icsVars, dwVars, adaptVars>>
    \/ FP_Answer /\ UNCHANGED <<retryVars, pipeVars, runVars, semVars, sessVars, refreshVars, filterVars, icsVars, dwVars, adaptVars>>
SpecPages == InitPages /\ [][NextPages]_vars
\* every request of a page ends, with an answer or with an error (the
\* session's timeout, the retries' last attempt), so a loop that can take
\* its next turn takes it
SpecPagesFair == SpecPages /\ WF_vars(NextPages)

InitAdapters ==
    AdaptInit /\ RetryIdle /\ PipeIdle /\ RunIdle /\ SemIdle /\ SessIdle /\ RefreshIdle /\ FilterIdle /\ IcsIdle /\ DwIdle /\ PageIdle
NextAdapters ==
    \/ A_Item /\ UNCHANGED <<retryVars, pipeVars, runVars, semVars, sessVars, refreshVars, filterVars, icsVars, dwVars, pageVars>>
SpecAdapters == InitAdapters /\ [][NextAdapters]_vars

InitRetry == RetryInit /\ PipeIdle /\ RunIdle /\ SemIdle /\ SessIdle /\ RefreshIdle /\ FilterIdle /\ IcsIdle /\ DwIdle /\ PageIdle /\ AdaptIdle
NextRetry ==
    \/ RB_Success /\ UNCHANGED <<pipeVars, runVars, semVars, sessVars, refreshVars, filterVars, icsVars, dwVars, pageVars, adaptVars>>
    \/ RB_Transient /\ UNCHANGED <<pipeVars, runVars, semVars, sessVars, refreshVars, filterVars, icsVars, dwVars, pageVars, adaptVars>>
    \/ RB_RateLimit /\ UNCHANGED <<pipeVars, runVars, semVars, sessVars, refreshVars, filterVars, icsVars, dwVars, pageVars, adaptVars>>
    \/ RB_ClientError /\ UNCHANGED <<pipeVars, runVars, semVars, sessVars, refreshVars, filterVars, icsVars, dwVars, pageVars, adaptVars>>
    \/ RB_OtherError /\ UNCHANGED <<pipeVars, runVars, semVars, sessVars, refreshVars, filterVars, icsVars, dwVars, pageVars, adaptVars>>
    \/ RB_Wake /\ UNCHANGED <<pipeVars, runVars, semVars, sessVars, refreshVars, filterVars, icsVars, dwVars, pageVars, adaptVars>>
SpecRetry == InitRetry /\ [][NextRetry]_vars


\* library.py line 66-96: the first and the last except clause and the loop
\* have the text of library_all_events.py line 116-127 and 145-147
NextLibRetry ==
    \/ RB_Success /\ UNCHANGED <<pipeVars, runVars, semVars, sessVars, refreshVars, filterVars, icsVars, dwVars, pageVars, adaptVars>>
    \/ RB_Transient /\ UNCHANGED <<pipeVars, runVars, semVars, sessVars, refreshVars, filterVars, icsVars, dwVars, pageVars, adaptVars>>
    \/ L_RateLimit /\ UNCHANGED <<pipeVars, runVars, semVars, sessVars, refreshVars, filterVars, icsVars, dwVars, pageVars, adaptVars>>
    \/ L_ClientError /\ UNCHANGED <<pipeVars, runVars, semVars, sessVars, refreshVars, filterVars, icsVars, dwVars, pageVars, adaptVars>>
    \/ RB_OtherError /\ UNCHANGED <<pipeVars, runVars, semVars, sessVars, refreshVars, filterVars, icsVars, dwVars, pageVars, adaptVars>>
    \/ RB_Wake /\ UNCHANGED <<pipeVars, runVars, semVars, sessVars, refreshVars, filterVars, icsVars, dwVars, pageVars, adaptVars>>
SpecLibRetry == InitRetry /\ [][NextLibRetry]_vars

----------------------------------------------------------------------------
(* Properties of the de-duplication and of the snapshot *)

Key4(e) == <<e.Library, e.Title, e.Date, e.Time>>

\* the positions of all_events that hold the first record of their key
FirstOccurrences ==
    {i \in 1..Len(all_events) :
        \A j \in 1..(i - 1) : Key4(all_events[j]) # Key4(all_events[i])}

\* the elements of seq at the positions in idx, in the order of seq
RECURSIVE Restrict(_, _, _)
Restrict(seq, idx, i) ==
    IF i > Len(seq) THEN <<>>
    ELSE (IF i \in idx THEN <<seq[i]>> ELSE <<>>) \o Restrict(seq, idx, i + 1)

Deduped == p_pc \in {"deduped", "processed", "returned", "rechecked"}

\* C7: the de-duplication pass returns exactly the first occurrence, in input
\* order, of each distinct (Library, Title, Date, Time): a subsequence of the
\* input without two equal keys that holds every key of the input; records
\* that differ only in Description collapse to the first; the pass applied to
\* its own output returns that output.
C7_DedupFirstOccurrence ==
    /\ Deduped =>
         /\ unique_events = Restrict(all_events, FirstOccurrences, 1)
         /\ \A i, j \in 1..Len(unique_events) :
               Key4(unique_events[i]) = Key4(unique_events[j]) => i = j
         /\ \A i \in 1..Len(all_events) :
               \E k \in 1..Len(unique_events) :
                   Key4(unique_events[k]) = Key4(all_events[i])
         /\ \A i, j \in 1..Len(all_events) :
               (i < j /\ Key4(all_events[i]) = Key4(all_events[j])
                      /\ i \in FirstOccurrences) =>
                   /\ \E k \in 1..Len(unique_events) : unique_events[k] = all_events[i]
                   /\ all_events[j].Description # all_events[i].Description =>
                        \A k \in 1..Len(unique_events) : unique_events[k] # all_events[j]
    /\ p_pc = "rechecked" => rededup = unique_events

\* a record, another one, then the first again with another description
C7_Witness ==
    /\ p_pc = "rechecked"
    /\ Len(all_events) = 3
    /\ Key4(all_events[1]) = Key4(all_events[3])
    /\ all_events[1].Description # all_events[3].Description
    /\ Key4(all_events[2]) # Key4(all_events[1])
    /\ unique_events = <<all_events[1], all_events[2]>>

\* the snapshot of the run: the rows of the CSV file
SnapshotRows == IF csv_file.written THEN csv_file.rows ELSE <<>>

\* the calendar day a date text denotes
SameDay(d1, d2) ==
    /\ ParseEventDate(d1).ok
    /\ ParseEventDate(d2).ok
    /\ ParseEventDate(d1).date = ParseEventDate(d2).date

\* C8: the snapshot never holds two records of one source with the same title
\* and time whose dates denote the same calendar day (format variants of one
\* date are duplicates).
C8_NormalizedIdentity ==
    \A i, j \in 1..Len(SnapshotRows) :
        (/\ SnapshotRows[i].Library = SnapshotRows[j].Library
         /\ SnapshotRows[i].Title = SnapshotRows[j].Title
         /\ SnapshotRows[i].Time = SnapshotRows[j].Time
         /\ SameDay(SnapshotRows[i].Date, SnapshotRows[j].Date)) => i = j

\* two records of different adapters with the same title, date and time
CrossSourcePair(i, j) ==
    /\ i < j
    /\ all_events[i].Library # all_events[j].Library
    /\ all_events[i].Title = all_events[j].Title
    /\ all_events[i].Date = all_events[j].Date
    /\ all_events[i].Time = all_events[j].Time
    /\ all_events[i].Description # all_events[j].Description

\* C9 as stated: of two records with the same title, date and time that two
\* different adapters returned, exactly one survives the de-duplication.
C9_CrossSourceCollapse ==
    Deduped =>
        \A i, j \in 1..Len(all_events) :
            CrossSourcePair(i, j) =>
                Cardinality({k \in 1..Len(unique_events) :
                    /\ unique_events[k].Title = all_events[i].Title
                    /\ unique_events[k].Date = all_events[i].Date
                    /\ unique_events[k].Time = all_events[i].Time}) = 1

\* two records with the same Library, title, date text and time
SameSourcePair(i, j) ==
    /\ i < j
    /\ i \in FirstOccurrences
    /\ Key4(all_events[i]) = Key4(all_events[j])
    /\ all_events[i].Description # all_events[j].Description

\* C9 amended: of two records with the same Library, title, date text and
\* time and different descriptions exactly one survives the de-duplication,
\* the first; when its date parses into the window its snapshot row carries
\* the normalized date; records of different Library both survive.
C9_SameSourceCollapse ==
    /\ Deduped =>
         \A i, j \in 1..Len(all_events) :
            /\ SameSourcePair(i, j) =>
                 /\ Cardinality({k \in 1..Len(unique_events) :
                        Key4(unique_events[k]) = Key4(all_events[i])}) = 1
                 /\ \E k \in 1..Len(unique_events) : unique_events[k] = all_events[i]
            /\ CrossSourcePair(i, j) =>
                 /\ \E k \in 1..Len(unique_events) :
                        Key4(unique_events[k]) = Key4(all_events[i])
                 /\ \E k \in 1..Len(unique_events) :
                        Key4(unique_events[k]) = Key4(all_events[j])
    /\ p_pc \in {"returned", "rechecked"} =>
         \A i, j \in 1..Len(all_events) :
            (/\ SameSourcePair(i, j)
             /\ ParseEventDate(all_events[i].Date).ok
             /\ Ordinal(ParseEventDate(all_events[i].Date).date) \in WindowStart..WindowEnd) =>
                \E r \in 1..Len(SnapshotRows) :
                    SnapshotRows[r] =
                        [all_events[i] EXCEPT
                            !.Date = StrftimeLong(ParseEventDate(all_events[i].Date).date)]

\* the same record twice with two descriptions, exported with its ISO date
\* turned into the long form
C9_Witness ==
    /\ p_pc = "returned"
    /\ Len(all_events) = 2
    /\ SameSourcePair(1, 2)
    /\ all_events[1].Date = IsoDateText(D10)
    /\ Len(unique_events) = 1
    /\ csv_file.written
    /\ Len(csv_file.rows) = 1
    /\ csv_file.rows[1].Date = LongDateText(D10)
    /\ csv_file.rows[1].Description = all_events[1].Description

----------------------------------------------------------------------------
(* Properties of the run *)

\* what the task a finished with
OutcomeOf(a) == completed[CHOOSE i \in 1..Len(completed) : completed[i].task = a].out

\* the lists the adapters a, a+1, ... returned, one after the other
RECURSIVE ConcatFromTask(_)
ConcatFromTask(a) ==
    IF a > NumTasks THEN <<>>
    ELSE (IF OutcomeOf(a).kind = "list" THEN OutcomeOf(a).val ELSE <<>>)
            \o ConcatFromTask(a + 1)

\* C1: whatever the interleaving and whichever adapters raise, no adapter is
\* cancelled because another one failed, main() goes on only when every
\* adapter has finished, and the merged list is the concatenation, in the
\* order of the task list, of the lists of the adapters that returned one.
C1_GatherIsolation ==
    /\ \A i \in 1..Len(completed) :
          completed[i].out.kind = "exc" => completed[i].out.err # "CancelledError"
    /\ p_pc \in {"gathered", "returned"} =>
          /\ Finished = RunTasks
          /\ Len(all_results) = NumTasks
          /\ \A a \in RunTasks : all_results[a] = OutcomeOf(a)
    /\ p_pc = "returned" => all_events = ConcatFromTask(1)

\* the second task finished first and returned events, the first one raised,
\* the third one returned events after it
C1_Witness ==
    /\ p_pc = "returned"
    /\ completed[1].task = 2
    /\ completed[1].out = ListResult(Payload(2))
    /\ OutcomeOf(1).kind = "exc"
    /\ OutcomeOf(3) = ListResult(Payload(3))
    /\ all_events = Payload(2) \o Payload(3) \o
                      (IF OutcomeOf(4).kind = "list" THEN OutcomeOf(4).val ELSE <<>>)

\* the adapters whose fetch failed for good in this run
FailedAdapters == {completed[i].task : i \in {j \in 1..Len(completed) : completed[j].failed}}

\* the entries of the gather result that are not event lists: the only trace
\* of a failure that main() receives
FailureEntries == {a \in 1..Len(all_results) : all_results[a].kind # "list"}

\* the lists of the adapters other than a, in task order
RECURSIVE ConcatOthers(_, _)
ConcatOthers(a, skip) ==
    IF a > NumTasks THEN <<>>
    ELSE (IF a # skip /\ OutcomeOf(a).kind = "list" THEN OutcomeOf(a).val ELSE <<>>)
            \o ConcatOthers(a + 1, skip)

\* C2: when exactly one adapter fails for good, the outcome of the run is the
\* records of every other adapter plus one failure entry naming that adapter.
C2_FailureEntry ==
    (p_pc = "returned" /\ Cardinality(FailedAdapters) = 1) =>
        \A a \in FailedAdapters :
            /\ all_events = ConcatOthers(1, a)
            /\ FailureEntries = {a}

\* C10: when the run is stopped by its timeout, the events of the adapters
\* that had completed are in the snapshot.
C10_CompletedKept ==
    p_pc = "killed" =>
        \A i \in 1..Len(completed) :
            completed[i].out.kind = "list" =>
                \A k \in 1..Len(completed[i].out.val) :
                    InWindow(ProcessEvent(completed[i].out.val[k])) =>
                        \E r \in 1..Len(SnapshotRows) :
                            /\ SnapshotRows[r].Library = completed[i].out.val[k].Library
                            /\ SnapshotRows[r].Title = completed[i].out.val[k].Title
                            /\ SnapshotRows[r].Time = completed[i].out.val[k].Time

----------------------------------------------------------------------------
(* Properties of the semaphores *)

\* the requests of one transport that are in flight
InFlight(tr) == {a \in Callers : s_pc[a] = "inflight" /\ Tasks[a].transport = tr}

Ceiling(tr) == IF tr = "firecrawl" THEN FIRECRAWL_CONCURRENCY ELSE REQUESTS_CONCURRENCY

\* C6: at every instant at most FIRECRAWL_CONCURRENCY Firecrawl calls and at
\* most REQUESTS_CONCURRENCY direct HTTP requests are in flight, and a call is
\* held back only by the ceiling of its own transport.
C6_TwoCeilings ==
    /\ Cardinality(InFlight("firecrawl")) <= FIRECRAWL_CONCURRENCY
    /\ Cardinality(InFlight("requests")) <= REQUESTS_CONCURRENCY
    /\ \A a \in Callers :
          (/\ s_pc[a] = "ready"
           /\ Cardinality(InFlight(Tasks[a].transport)) < Ceiling(Tasks[a].transport))
              => ENABLED S_AcquireBy(a)

\* the Firecrawl permits are used up with a Firecrawl adapter held back,
\* while direct requests are in flight up to their own ceiling
C6_Witness ==
    /\ FIRECRAWL_CONCURRENCY = 2
    /\ REQUESTS_CONCURRENCY = 1
    /\ Cardinality(InFlight("firecrawl")) = 2
    /\ \E a \in Callers : s_pc[a] = "ready" /\ Tasks[a].transport = "firecrawl"
    /\ Cardinality(InFlight("requests")) = 1
    /\ \E a \in Callers : s_pc[a] = "ready" /\ Tasks[a].transport = "requests"

----------------------------------------------------------------------------
(* Properties of retry_with_backoff *)

AllTransient == \A i \in 1..Len(history) : history[i] = "transient"

\* delay * 2^k for k = 0 .. n-1
ExpectedSleeps(n) == [k \in 1..n |-> delay * 2 ^ (k - 1)]

C4_FailFast ==
    \A i \in 1..Len(history) :
        history[i] \in {"client", "other"} =>
            /\ i = Len(history)
            /\ rb_pc = "raised"
            /\ rb_out = [kind |-> "raise", err |-> last]
            /\ Len(sleeps) = i - 1

\* a non-retryable error on the second attempt, after one retried failure
C4_Witness ==
    /\ rb_pc = "raised"
    /\ calls = 2
    /\ max_retries = 3
    /\ history[2] \in {"client", "other"}
    /\ Len(sleeps) = 1

NumericHint(e) ==
    /\ e.headers.kind = "dict"
    /\ e.headers.retry_after.kind = "digits"

\* C5: the sleep that follows a 429 failure is min(Retry-After, 60) when the
\* error carries a numeric hint and min(delay * 2^attempt, 30) otherwise; no
\* sleep after a 429 exceeds 60 s; the operation is attempted at most
\* max_retries times.
C5_RateLimitWait ==
    /\ calls <= max_retries
    /\ \A i \in 1..Len(sleeps) : history[i] = "ratelimit" => sleeps[i] <= 60
    /\ (rb_pc = "sleep" /\ history[calls] = "ratelimit") =>
           /\ Len(sleeps) = calls
           /\ sleeps[calls] =
                 IF NumericHint(last)
                 THEN (IF last.headers.retry_after.val < 60
                       THEN last.headers.retry_after.val ELSE 60)
                 ELSE (IF delay * 2 ^ attempt < 30
                       THEN delay * 2 ^ attempt ELSE 30)

\* a 429 whose Retry-After exceeds the ceiling has been waited for
C5_Witness ==
    /\ rb_pc = "sleep"
    /\ history[calls] = "ratelimit"
    /\ NumericHint(last)
    /\ last.headers.retry_after.val > 60
    /\ sleeps[calls] = 60

----------------------------------------------------------------------------
(* Properties of the shared HTTP session *)

\* main() no longer waits for the adapters
WaitOver == m_pc \in {"merge", "raised"}

\* C11: in every interleaving of the adapter tasks at most one ClientSession
\* is open at a time, and once main() has stopped waiting at the gather
\* (every task returned or raised, or the wait ended with an error) no
\* session is open and _http_session is None again
C11_SessionClosed ==
    /\ Cardinality(http_session.open) <= 1
    /\ WaitOver => http_session = NoSession

\* two adapters took the session, one finished and one was cancelled with
\* the wait, and main() has left the finally clause
C11_Witness ==
    /\ m_pc = "raised"
    /\ \E a, b \in GatherTasks :
          /\ a # b
          /\ UsesSession(a) /\ UsesSession(b)
          /\ t_pc[a] = "done"
          /\ t_pc[b] = "cancelled"
    /\ http_session = NoSession

----------------------------------------------------------------------------
(* Properties of the progress record *)

SubprocessEnded(t) == proc[t] \in {"exit0", "exit1", "killed"}

TerminalState == read_progress_file(PROGRESS_FILE) \in {"completed", "error"}

\* C12: once the scraper subprocess of an accepted refresh has ended, the
\* state of the progress record eventually is completed or error
C12_TerminalState ==
    \A t \in Threads : SubprocessEnded(t) ~> TerminalState

----------------------------------------------------------------------------
(* Properties of filter_events *)

\* C13: answering a query leaves every record of events_data as it was
C13_NoMutation == [][events_data' = events_data]_vars

Answered == f_pc = "answered"

Located(e) == get_library_coordinates(e.Library).ok

\* the distance of a located record from the user of the request, 1/1000 mile
ExactDistance(e) ==
    haversine_distance(user_coords(request), get_library_coordinates(e.Library))

Unlocated(e) == ~Located(e)
UnlocatedPassing(e) == ~Located(e) /\ PassesCriteria(e, request)

\* C16: when the user address resolves and a maximum distance is given, no
\* returned record is without coordinates or farther than the maximum; when
\* the address resolves and no maximum is given, the records without
\* coordinates that pass the other criteria are all returned
C16_DistanceFilter ==
    (Answered /\ user_coords(request).ok) =>
        IF request.max_distance # Absent
        THEN \A i \in 1..Len(filtered_events) :
                /\ Located(filtered_events[i])
                /\ ExactDistance(filtered_events[i]) <= request.max_distance
        ELSE SelectSeq(filtered_events, Unlocated)
                = SelectSeq(events_data, UnlocatedPassing)

\* a maximum of 2.36 miles from 60077: the snapshot holds a record without
\* coordinates and a record 2.363 miles away, and neither is returned
C16_Witness ==
    /\ Answered
    /\ user_coords(request).ok
    /\ request.max_distance = 2360
    /\ Len(events_data) = 2
    /\ Unlocated(events_data[1])
    /\ Located(events_data[2]) /\ ExactDistance(events_data[2]) = 2363
    /\ filtered_events = <<>>

ExactKey(e) == IF Located(e) THEN ExactDistance(e) ELSE Infinity
RoundedKey(e) == IF Located(e) THEN Round1(ExactDistance(e)) ELSE Infinity

OtherCriteria(e) ==
    /\ (selected_libs(request) = {} \/ e.Library \in selected_libs(request))
    /\ (selected_types(request) = {} \/ get_event_types(e) \cap selected_types(request) # {})
    /\ matches_search(e, request)

ValidStart == StrptimeIso(request.start_date).ok
ValidEnd == StrptimeIso(request.end_date).ok
StartDay == Ordinal(StrptimeIso(request.start_date).date)
EndDay == Ordinal(StrptimeIso(request.end_date).date)

DayOf(e) == Ordinal(parse_event_date(e.Date).date)

InRange(e) ==
    /\ parse_event_date(e.Date).ok
    /\ ValidStart => StartDay <= DayOf(e)
    /\ ValidEnd => DayOf(e) <= EndDay

OnBound(e) ==
    /\ parse_event_date(e.Date).ok
    /\ \/ ValidStart /\ DayOf(e) = StartDay
       \/ ValidEnd /\ DayOf(e) = EndDay

Returned(e) == \E i \in 1..Len(filtered_events) : filtered_events[i] = e

\* C14: with at least one valid bound, every returned record has a date
\* that parses and lies in the inclusive range, every record of the snapshot
\* dated on a bound of the range that passes the other criteria is
\* returned, and no record whose date does not parse is returned
C14_DateWindow ==
    (Answered /\ (ValidStart \/ ValidEnd)) =>
        /\ \A i \in 1..Len(filtered_events) : InRange(filtered_events[i])
        /\ \A i \in 1..Len(events_data) :
              (OnBound(events_data[i]) /\ InRange(events_data[i])
                  /\ OtherCriteria(events_data[i]))
              => Returned(events_data[i])
        /\ \A i \in 1..Len(events_data) :
              ~parse_event_date(events_data[i].Date).ok => ~Returned(events_data[i])

\* a window with both bounds: the record dated on the end bound is
\* returned, the record whose date does not parse is not
C14_Witness ==
    /\ Answered
    /\ ValidStart /\ ValidEnd /\ StartDay < EndDay
    /\ Len(events_data) = 2
    /\ parse_event_date(events_data[1].Date).ok /\ DayOf(events_data[1]) = EndDay
    /\ events_data[2].Date # <<>> /\ ~parse_event_date(events_data[2].Date).ok
    /\ filtered_events = <<events_data[1]>>

\* the tokens of the search term of the request
Tokens == SearchTokens(Strip(Lower(request.search_term)))

\* the searched fields of a record, lower case, joined by spaces
SearchedText(e) ==
    JoinSpace([i \in 1..Len(search_fields_list(request)) |->
                  Lower(e[search_fields_list(request)[i]])])

HasToken(e, i) == Contains(Tokens[i], SearchedText(e))

Mode == NormSearchMode(request)

\* what filter_events returns for the same snapshot, term and fields with
\* search_mode any
AnyResult ==
    filter_events(events_data, [request EXCEPT !.search_mode = S_any]).result

InAnyResult(e) == \E i \in 1..Len(AnyResult) : AnyResult[i] = e

\* C15 as stated: for a search term, with mode all every returned record
\* holds every token, with mode any every returned record holds at least
\* one token, and the result for all is part of the result for any
C15_SearchModes ==
    (Answered /\ request.search_term # <<>>) =>
        /\ Mode = S_all =>
              \A k \in 1..Len(filtered_events) : \A i \in 1..Len(Tokens) :
                  HasToken(filtered_events[k], i)
        /\ Mode = S_any =>
              \A k \in 1..Len(filtered_events) : \E i \in 1..Len(Tokens) :
                  HasToken(filtered_events[k], i)
        /\ Mode = S_all =>
              \A k \in 1..Len(filtered_events) : InAnyResult(filtered_events[k])

\* C15 amended: for a search term that has at least one token, with mode
\* all every returned record holds every token, with mode any every
\* returned record holds at least one token, and the result for all is part
\* of the result for any; a term without tokens (empty or blank) filters
\* nothing out in either mode
C15_SearchModesWithTokens ==
    Answered =>
        /\ (Mode = S_all /\ Tokens # <<>>) =>
              \A k \in 1..Len(filtered_events) : \A i \in 1..Len(Tokens) :
                  HasToken(filtered_events[k], i)
        /\ (Mode = S_any /\ Tokens # <<>>) =>
              \A k \in 1..Len(filtered_events) : \E i \in 1..Len(Tokens) :
                  HasToken(filtered_events[k], i)
        /\ Mode = S_all =>
              \A k \in 1..Len(filtered_events) : InAnyResult(filtered_events[k])
        /\ (Mode \in {S_all, S_any} /\ Tokens = <<>>) => filtered_events = events_data

\* mode all with two tokens: the record that holds both is returned, the
\* record that holds one of them is returned for any only
C15_Witness ==
    /\ Answered
    /\ Mode = S_all
    /\ Len(Tokens) = 2
    /\ Len(events_data) = 2
    /\ HasToken(events_data[1], 1) /\ HasToken(events_data[1], 2)
    /\ HasToken(events_data[2], 1) /\ ~HasToken(events_data[2], 2)
    /\ filtered_events = <<events_data[1]>>
    /\ AnyResult = events_data

----------------------------------------------------------------------------
(* Records with an unknown date in the exports of a run *)

UnknownDate(e) == ~ParseEventDate(e.Date).ok
RunExported == p_pc \in {"returned", "rechecked"}
InRows(rows, e) == \E j \in 1..Len(rows) : rows[j] = CsvRow(e)
InCalendar(e) == \E j \in 1..Len(ics_file) : CsvRow(ics_file[j]) = CsvRow(e)

\* C18: a record whose date cannot be parsed yields no calendar entry but is
\* still present in the CSV snapshot and in the PDF report of the same run
C18_UnknownDateInTables ==
    RunExported =>
        \A i \in 1..Len(unique_events) :
            UnknownDate(unique_events[i]) =>
                /\ ~InCalendar(unique_events[i])
                /\ InRows(SnapshotRows, unique_events[i])
                /\ InRows(pdf_file, unique_events[i])
----------------------------------------------------------------------------
(* The identifiers of the calendar entries *)

BothExported == run_calendar.done /\ gui_calendar.done

\* the entries of the two exports, each with the record it was made from
RunEntries ==
    {[entry |-> run_calendar.events[k],
      record |-> HandedToIcs(ics_input)[run_calendar.events[k].src]] :
        k \in 1..Len(run_calendar.events)}
GuiEntries ==
    {[entry |-> gui_calendar.events[k],
      record |-> ics_input[gui_calendar.events[k].src]] :
        k \in 1..Len(gui_calendar.events)}

SameFive(r1, r2) ==
    /\ r1.Library = r2.Library /\ r1.Title = r2.Title /\ r1.Date = r2.Date
    /\ r1.Time = r2.Time /\ r1.Location = r2.Location

\* C19: two entries made from records that agree on Library, Title, Date,
\* Time and Location carry the same UID, whichever of generate_ics_file and
\* events_to_ics made them, wherever the records stand in the export and
\* whatever their Description, Link and Age Group are
C19_UidOfFiveColumns ==
    \A x \in RunEntries \cup GuiEntries, y \in RunEntries \cup GuiEntries :
        SameFive(x.record, y.record) => x.entry.uid = y.entry.uid

C19_Witness ==
    /\ BothExported
    /\ Len(ics_input) = 2
    /\ SameFive(ics_input[1], ics_input[2])
    /\ ics_input[1].Description # ics_input[2].Description
    /\ ics_input[1].Link # ics_input[2].Link
    /\ ics_input[1].Age_Group # ics_input[2].Age_Group
    /\ Len(run_calendar.events) = 2 /\ Len(gui_calendar.events) = 2
    /\ run_calendar.events[1].uid = gui_calendar.events[2].uid
----------------------------------------------------------------------------
(* Begin and end of the calendar entries *)

\* the time text is a range at a hyphen or an en dash
IsDashRange(t) == t.k = "range" /\ t.sep \in Dashes
StartParses(t) == IsDashRange(t) /\ ClockParses(t.start)
EndParses(t) == IsDashRange(t) /\ ClockParses(t.end)

\* C20: an entry made from a range whose start and end both parse ends
\* strictly after it begins, and an entry for which no end time was parsed
\* ends exactly one hour after it begins
C20_EndAfterStart ==
    \A x \in RunEntries \cup GuiEntries :
        /\ (StartParses(x.record.Time) /\ EndParses(x.record.Time))
                => x.entry.end > x.entry.begin
        /\ ~EndParses(x.record.Time)
                => x.entry.end = x.entry.begin + OneHour

----------------------------------------------------------------------------
(* The order of the time texts within one day *)

IsAllDay(row) == row.Time.k = "allday"
IsTimed(row) == ClockParses(row.Time)
IsUnknownTime(row) == row.Time.k = "text"

\* C21: in the exported order of one day and one source an 'All Day' entry
\* stands before every timed entry, and an entry whose time text is unknown
\* stands after every entry with a known time
C21_UnknownTimeLast ==
    RunExported =>
        \A i, j \in 1..Len(SnapshotRows) :
            /\ (IsAllDay(SnapshotRows[i]) /\ IsTimed(SnapshotRows[j])) => i < j
            /\ (IsUnknownTime(SnapshotRows[i]) /\ IsTimed(SnapshotRows[j])) => j < i

----------------------------------------------------------------------------
(* All-day calendar entries *)

\* C30: an entry is exported as an all-day event exactly when the time text
\* of its record says 'All Day'
C30_AllDayOnlyForAllDayText ==
    \A x \in RunEntries \cup GuiEntries :
        x.entry.all_day <=> (x.record.Time.k = "allday")

----------------------------------------------------------------------------
(* The identifiers within one calendar *)

----------------------------------------------------------------------------
(* The distance filter when the address lookup fails *)

\* C29: when the query gives a user address and a maximum distance, every
\* returned record has coordinates within that distance of the user's
\* location, also when the address lookup fails (no record is then within
\* a distance of a known location)
C29_WithinDistanceOfAddress ==
    (Answered /\ request.user_address # <<>> /\ request.max_distance # Absent) =>
        \A i \in 1..Len(filtered_events) :
            /\ user_coords(request).ok
            /\ Located(filtered_events[i])
            /\ ExactDistance(filtered_events[i]) <= request.max_distance

----------------------------------------------------------------------------
(* One scraper run at a time *)

RunningProcs == {t \in Threads : proc[t] = "running"}

\* a background thread has been started and has not left its finally clause
RunInProgress == \E t \in Threads : bg_pc[t] \in {"start", "run", "wait", "finally"}

\* the step is a refresh request answered with 409
Rejected == conflicts' = conflicts + 1

\* the step starts a background thread
StartsThread == \E t \in Threads : bg_pc[t] = "unborn" /\ bg_pc'[t] # "unborn"

\* C26: at most one scraper subprocess runs at a time; while a run is in
\* progress no step starts another thread, and a request rejected with 409
\* leaves the threads and the processes as they are
C26_OneRunAtATime ==
    [][/\ Cardinality(RunningProcs') <= 1
       /\ RunInProgress => ~StartsThread
       /\ Rejected => (RunInProgress /\ bg_pc' = bg_pc /\ proc' = proc
                          /\ SCRAPER_THREAD' = SCRAPER_THREAD)]_vars

\* a request was rejected while the subprocess of the second run was running,
\* after the first run had ended
C26_Witness ==
    /\ conflicts >= 1
    /\ bg_pc[1] = "dead"
    /\ proc[2] = "running"
    /\ SCRAPER_THREAD = 2

----------------------------------------------------------------------------
(* The date normalization over the format variants *)

DatesProcessed == p_pc \in {"processed", "returned", "rechecked"}

\* C22: every format variant of December 10, 2025 is normalized to that day,
\* and none is classified as an unknown date
C22_VariantsSameDate ==
    DatesProcessed =>
        \A i \in 1..Len(processed) :
            /\ processed[i].datetime_obj.ok
            /\ processed[i].datetime_obj.date = D10

----------------------------------------------------------------------------
(* library.py: the wait after a rate limit *)

\* C24: no sleep of library.py's retry_with_backoff that follows a 429
\* failure is longer than 60 seconds
C24_LibRateLimitWaitCapped ==
    \A i \in 1..Len(sleeps) : history[i] = "ratelimit" => sleeps[i] <= RetryAfterCap

----------------------------------------------------------------------------
(* compute_date_window: precedence of command line, environment, default *)

\* the command line without any of the three flags
EmptyCommandLine ==
    [start_date |-> Unset(<<>>), days |-> Unset(EmptyText),
     start_offset_days |-> Unset(EmptyText)]

\* the window that the precedence command line > environment > default
\* yields when the command line is cli
Precedence(cli) ==
    LET cliDays == cli.days.given /\ IntParses(cli.days.text)
        envDays == environ.DAYS_TO_FETCH.given /\ IsDigit(environ.DAYS_TO_FETCH.text)
        cliStart == cli.start_date.given /\ cli.start_date.text # <<>>
        envStart == environ.START_DATE.given /\ environ.START_DATE.text # <<>>
        startText == IF cliStart THEN cli.start_date.text ELSE environ.START_DATE.text
        cliOffset == cli.start_offset_days.given /\ IntParses(cli.start_offset_days.text)
        envOffset ==
            environ.START_OFFSET_DAYS.given /\ IntParses(environ.START_OFFSET_DAYS.text)
        offset ==
            IF cliOffset THEN cli.start_offset_days.text.n
            ELSE IF envOffset THEN environ.START_OFFSET_DAYS.text.n ELSE 0
    IN  /\ window.days =
            IF cliDays THEN cli.days.text.n
            ELSE IF envDays THEN environ.DAYS_TO_FETCH.text.n
            ELSE DEFAULT_DAYS_TO_FETCH
        /\ (cliStart \/ envStart) =>
            window.start_date_str =
                IF StrptimeIso(startText).ok THEN StrptimeIso(startText).date ELSE today
        /\ ~(cliStart \/ envStart) =>
            Ordinal(window.start_date_str) = Ordinal(today) + offset

----------------------------------------------------------------------------
(* The pagination loops end *)

\* the page requests an adapter may make according to its max_pages
PageLimit(adapter) ==
    CASE adapter = "bibliocommons" -> BibliocommonsMaxPages
      [] adapter = "glencoe" -> GlencoeMaxPages
      [] adapter = "chicago_parks" -> ChicagoParksMaxPages

\* C27: whatever the server answers, fetch_bibliocommons_events requests at
\* most 5 pages, fetch_glencoe_events at most 5, fetch_chicago_parks_events
\* at most 30, and the loop of every adapter, the one of fetch_fpdcc_events
\* included, comes to its end
C27_PaginationBounded ==
    /\ [](pg_adapter \in {"bibliocommons", "glencoe", "chicago_parks"} =>
            pages_requested <= PageLimit(pg_adapter))
    /\ <>(pg_pc = "done")

----------------------------------------------------------------------------
(* Titles of the records that leave an adapter *)

\* the items with an empty title the adapter has gone through
EmptyTitleItems ==
    {i \in 1..(ad_next - 1) : clean_text(ad_items[i]) = <<>>}

\* C23: every record an adapter emits has a Title that is not empty, and an
\* item whose title is empty after cleaning is dropped: the adapter emits
\* no record for it
C23_TitleNonEmpty ==
    /\ \A i \in 1..Len(emitted) : emitted[i].Title # <<>>
    /\ EmptyTitleItems # {} => Len(emitted) <= (ad_next - 1) - Cardinality(EmptyTitleItems)

====
